---- MODULE Spec2Model ----
(***************************************************************************)
(* gpuid: a controller that watches GPU pods, reads the GPU and chassis    *)
(* serial numbers of a pod with an exec call, labels the pod's node with   *)
(* them and writes one record per (chassis, GPU) to a sink.                *)
(*                                                                         *)
(* Strings are sequences of tokens.  A token is one character ("C", "0",   *)
(* "/") or, for the fixed parts of a label key, one atomic chunk           *)
(* ("gpuid.github.com", "chassis", "gpu"); a string operation of the       *)
(* source is the same operation on the sequence.                           *)
(* Time is counted in units of thirty minutes.                             *)
(***************************************************************************)
EXTENDS Integers, Sequences, FiniteSets, TLC

\* ------------------------------------------------------------------ bounds
MaxTime == 2
NumWorkers == 2
MaxCalls == 2
MaxContainers == 2
MaxStatuses == 3
MaxLen == 3
MaxGroups == 2
MaxDevices == 3
MaxSegments == 3

\* --------------------------------------------------------------- constants
\* cacheTTL = 30 * time.Minute, in units of thirty minutes
cacheTTL == 1
maxRetries == 5
\* retryBackoff and maxRetryBackoff, in seconds
retryBackoff == 2
maxRetryBackoff == 45

defaultBatchSize == 10
defaultRetryCount == 2
\* defaultTimeout, in seconds
defaultTimeout == 30

labelNS == <<"gpuid.github.com">>
labelChassisPrefix == <<"chassis">>
labelChassisCount == <<"chassis-count">>
labelGPUPrefix == <<"gpu">>
\* a sentinel that is not itself a label value
notSetDefault_Slash == <<"n", "/", "a">>

notSetDefault == <<"n", "a">>

\* ----------------------------------------------------------------- strings
AlnumChars == {"0", "1", "2", "3", "A", "C", "G", "N", "a", "n"}

LabelChars == AlnumChars \cup {"-", "_", "."}

Ord(c) ==
  CASE c = " " -> 32 [] c = "-" -> 45 [] c = "." -> 46 [] c = "/" -> 47
    [] c = "0" -> 48 [] c = "1" -> 49 [] c = "2" -> 50 [] c = "3" -> 51
    [] c = ":" -> 58
    [] c = "A" -> 65 [] c = "C" -> 67 [] c = "G" -> 71 [] c = "N" -> 78
    [] c = "_" -> 95 [] c = "a" -> 97 [] c = "n" -> 110
    [] OTHER -> 127

RECURSIVE StrLess(_, _)
\* Go's s < t on strings: bytewise lexicographic order
StrLess(s, t) ==
  IF t = <<>> THEN FALSE
  ELSE IF s = <<>> THEN TRUE
  ELSE IF Ord(Head(s)) # Ord(Head(t)) THEN Ord(Head(s)) < Ord(Head(t))
  ELSE StrLess(Tail(s), Tail(t))

HasPrefix(s, p) == Len(s) >= Len(p) /\ SubSeq(s, 1, Len(p)) = p

Digits == <<"0", "1", "2", "3", "4", "5", "6", "7", "8", "9">>

RECURSIVE Itoa(_)
\* fmt.Sprintf("%d", i) for i >= 0
Itoa(i) == IF i < 10 THEN <<Digits[i + 1]>> ELSE Itoa(i \div 10) \o <<Digits[(i % 10) + 1]>>

\* -------------------------------------------------------------- readiness
PodRunning == "Running"

\* podReady without the check that every declared container has a status
podReady_NoCount(p) ==
  IF p.phase # PodRunning THEN FALSE
  ELSE \A i \in 1..Len(p.statuses) : p.statuses[i]

\* podReady: phase Running, at least as many container statuses as declared
\* containers, every status ready
podReady(p) ==
  IF p.phase # PodRunning THEN FALSE
  ELSE IF Len(p.statuses) < p.containers THEN FALSE
  ELSE \A i \in 1..Len(p.statuses) : p.statuses[i]

\* ------------------------------------------------------------------ labels
EmptyLabels == [k \in {} |-> <<>>]

SetLabel(m, k, v) == [x \in (DOMAIN m) \cup {k} |-> IF x = k THEN v ELSE m[x]]

IsAlnum(c) == c \in AlnumChars

RECURSIVE TrimLeading(_)
\* regexp `^[^A-Za-z0-9]+` replaced by ""
TrimLeading(s) ==
  IF s = <<>> THEN s ELSE IF IsAlnum(Head(s)) THEN s ELSE TrimLeading(Tail(s))

RECURSIVE TrimTrailing(_)
\* regexp `[^A-Za-z0-9]+$` replaced by ""
TrimTrailing(s) ==
  IF s = <<>> THEN s
  ELSE IF IsAlnum(s[Len(s)]) THEN s ELSE TrimTrailing(SubSeq(s, 1, Len(s) - 1))

\* labelValueRegex ^[A-Za-z0-9]([A-Za-z0-9\-_.]*[A-Za-z0-9])?$
labelValueRegex(s) ==
  /\ s # <<>>
  /\ IsAlnum(s[1])
  /\ IsAlnum(s[Len(s)])
  /\ \A i \in 1..Len(s) : s[i] \in LabelChars

RECURSIVE TrimSpace(_)
\* strings.TrimSpace
TrimSpace(s) ==
  IF s = <<>> THEN s
  ELSE IF Head(s) = " " THEN TrimSpace(Tail(s))
  ELSE IF s[Len(s)] = " " THEN TrimSpace(SubSeq(s, 1, Len(s) - 1))
  ELSE s

\* sanitizeLabelValue without the special case of "N/A"
sanitizeLabelValue_NoNA(value) ==
  IF value = <<>> THEN notSetDefault
  ELSE LET replaced == [i \in 1..Len(value) |->
                          IF value[i] \in LabelChars THEN value[i] ELSE "-"]
           sanitized == TrimTrailing(TrimLeading(replaced))
       IN IF sanitized = <<>> THEN notSetDefault
          ELSE IF ~labelValueRegex(sanitized) THEN notSetDefault
          ELSE TrimSpace(sanitized)

\* sanitizeLabelValue(value): "" and "N/A" give the sentinel; every other
\* character than [A-Za-z0-9-_.] becomes "-", leading and trailing
\* non-alphanumerics are cut, and what does not match labelValueRegex gives
\* the sentinel
sanitizeLabelValue(value) ==
  IF value = <<>> THEN notSetDefault
  ELSE IF value = <<"N", "/", "A">> THEN notSetDefault
  ELSE LET replaced == [i \in 1..Len(value) |->
                          IF value[i] \in LabelChars THEN value[i] ELSE "-"]
           sanitized == TrimTrailing(TrimLeading(replaced))
       IN IF sanitized = <<>> THEN notSetDefault
          ELSE IF ~labelValueRegex(sanitized) THEN notSetDefault
          ELSE TrimSpace(sanitized)

\* a nil *gpu.Serials entry
NilSerials == [Chassis |-> <<"nil">>, GPU |-> <<>>]

\* a less function that orders nothing
SerialsLess_None(a, b) == FALSE

\* the less function of sort.Slice in calculateGPULabels
SerialsLess(a, b) ==
  IF a = NilSerials THEN FALSE
  ELSE IF b = NilSerials THEN TRUE
  ELSE StrLess(a.Chassis, b.Chassis)

RECURSIVE InsertSerials(_, _)
InsertSerials(sorted, x) ==
  IF sorted = <<>> THEN <<x>>
  ELSE IF SerialsLess(x, sorted[Len(sorted)])
       THEN InsertSerials(SubSeq(sorted, 1, Len(sorted) - 1), x) \o <<sorted[Len(sorted)]>>
       ELSE sorted \o <<x>>

RECURSIVE SortSerials(_)
\* sort.Slice on fewer than 12 elements is an insertion sort
SortSerials(s) ==
  IF s = <<>> THEN <<>>
  ELSE InsertSerials(SortSerials(SubSeq(s, 1, Len(s) - 1)), s[Len(s)])

RECURSIVE InsertString(_, _)
InsertString(sorted, x) ==
  IF sorted = <<>> THEN <<x>>
  ELSE IF StrLess(x, sorted[Len(sorted)])
       THEN InsertString(SubSeq(sorted, 1, Len(sorted) - 1), x) \o <<sorted[Len(sorted)]>>
       ELSE sorted \o <<x>>

RECURSIVE SortStrings(_)
\* sort.Strings
SortStrings(s) ==
  IF s = <<>> THEN <<>>
  ELSE InsertString(SortStrings(SubSeq(s, 1, Len(s) - 1)), s[Len(s)])

ChassisKey(i) == labelNS \o <<"/">> \o labelChassisPrefix \o <<"-">> \o Itoa(i)

GPUKey(j) == labelNS \o <<"/">> \o labelGPUPrefix \o <<"-">> \o Itoa(j)

ChassisGPUKey(i, j) ==
  labelNS \o <<"/">> \o labelChassisPrefix \o <<"-">> \o Itoa(i)
          \o <<"-">> \o labelGPUPrefix \o <<"-">> \o Itoa(j)

ChassisCountKey == labelNS \o <<"/">> \o labelChassisCount

RECURSIVE GPULabels(_, _, _, _, _)
\* the inner loop of calculateGPULabels over the sorted GPU serials, from
\* 0-based index j
GPULabels(labels, chassisSerial, i, gpuSerials, j) ==
  IF j >= Len(gpuSerials) THEN labels
  ELSE LET g == gpuSerials[j + 1]
           gpuLabel == IF chassisSerial # notSetDefault
                       THEN ChassisGPUKey(i, j) ELSE GPUKey(j)
       IN IF g = <<>>
          THEN GPULabels(labels, chassisSerial, i, gpuSerials, j + 1)
          ELSE GPULabels(SetLabel(labels, gpuLabel, sanitizeLabelValue(g)),
                         chassisSerial, i, gpuSerials, j + 1)

RECURSIVE GroupLabels(_, _, _)
\* the outer loop of calculateGPULabels over the sorted groups, from 0-based
\* index i
GroupLabels(labels, sortedSerials, i) ==
  IF i >= Len(sortedSerials) THEN labels
  ELSE LET s == sortedSerials[i + 1]
       IN IF s = NilSerials THEN GroupLabels(labels, sortedSerials, i + 1)
          ELSE LET chassisSerial == sanitizeLabelValue(s.Chassis)
                   withChassis == IF chassisSerial # notSetDefault
                                  THEN SetLabel(labels, ChassisKey(i), chassisSerial)
                                  ELSE labels
               IN GroupLabels(GPULabels(withChassis, chassisSerial, i,
                                        SortStrings(s.GPU), 0),
                              sortedSerials, i + 1)

calculateGPULabels(serials) ==
  IF Len(serials) = 0 THEN EmptyLabels
  ELSE LET sortedSerials == SortSerials(serials)
           chassisCount == Cardinality({i \in 1..Len(sortedSerials) :
                                          sortedSerials[i] # NilSerials})
       IN SetLabel(GroupLabels(EmptyLabels, sortedSerials, 0),
                   ChassisCountKey, Itoa(chassisCount))

\* needsLabelUpdate that always asks for a write
needsLabelUpdate_Always(current, desired) == TRUE

\* needsLabelUpdate(current, desired); a map read of a missing key gives ""
needsLabelUpdate(current, desired) ==
  \/ \E k \in DOMAIN current : HasPrefix(k, labelNS) /\ k \notin DOMAIN desired
  \/ \E k \in DOMAIN desired :
       (IF k \in DOMAIN current THEN current[k] ELSE <<>>) # desired[k]

clearLabels(labels) ==
  [k \in {x \in DOMAIN labels : ~HasPrefix(x, labelNS)} |-> labels[k]]

applyLabels(labels, desiredLabels) ==
  [k \in (DOMAIN labels) \cup (DOMAIN desiredLabels) |->
     IF k \in DOMAIN desiredLabels THEN desiredLabels[k] ELSE labels[k]]

\* the label map attemptLabelUpdate writes: a copy of the current labels,
\* cleared and with the desired labels applied
updatedLabels(currentLabels, desiredLabels) ==
  applyLabels(clearLabels(currentLabels), desiredLabels)

\* --------------------------------------------------------- model's inputs
Key1 == <<"ns", "/", "p1">>

Key2 == <<"ns", "/", "p2">>

Key3 == <<"ns", "/", "p3">>

Keys == {Key1, Key2, Key3}

UIDs == {"U1", "U2", "U3"}

UidOf(key) == IF key = Key1 THEN "U1" ELSE IF key = Key2 THEN "U2" ELSE "U3"

NoPod ==
  [key |-> <<>>, uid |-> "none", phase |-> "none", containers |-> 0, statuses |-> <<>>]

\* the pod objects the informer delivers for a key: one declared container,
\* pending, running and not ready, running and ready
PodsOf(key) ==
  { [key |-> key, uid |-> UidOf(key), phase |-> ps[1], containers |-> 1,
     statuses |-> ps[2]] :
      ps \in {<<"Pending", <<>>>>, <<PodRunning, <<FALSE>>>>, <<PodRunning, <<TRUE>>>>} }

S1 == << [Chassis |-> <<"C", "0">>, GPU |-> << <<"G", "1">>, <<"G", "2">> >>] >>

S2 == << [Chassis |-> <<>>, GPU |-> << <<"G", "3">> >>] >>

\* what GetSerialNumbers returns for a pod when it succeeds: groups by
\* chassis, GPU serials deduplicated and sorted
SerialsInputs == {<<>>, S1, S2}

OtherKey == <<"existing">>

ForeignKey == <<"gpuid.github.com", ".", "a", "/", "x">>

L1 == SetLabel(EmptyLabels, OtherKey, <<"a">>)

L2 == SetLabel(SetLabel(L1, ChassisKey(1), <<"C", "1">>), ChassisCountKey, <<"2">>)

L3 == SetLabel(EmptyLabels, ForeignKey, <<"a">>)

\* label maps other clients of the API server put on the node
NodeLabelInputs == {EmptyLabels, L1, L2, L3}

P1 == <<"aws", ":", "/", "/", "/", "us-east-1a", "/", "i-abc">>

P2 == <<"aws", ":", "/", "/", "/", "us-east-1a", "/">>

\* provider IDs the API server reports for the node: a cloud instance, none,
\* one ending in "/"
ProviderInputs == {P1, <<>>, P2}

Workers == 1..NumWorkers

\* ------------------------------------------------------------------- state
VARIABLES
  now,          \* wall clock, in units of thirty minutes
  ctxDone,      \* the root context is cancelled
  cache,        \* informer indexer: key -> pod object or NoPod
  queue,        \* workqueue: order of the keys to hand out
  dirty,        \* workqueue: keys that need processing
  processing,   \* workqueue: keys handed out and not yet done
  shuttingDown, \* workqueue: shut down
  processed,    \* uidSet.m: uid -> time of Add
  nodeLabels,   \* the labels of the node in the API server
  wk,           \* per worker: position in do/processPod/EnsureLabels and locals
  events,       \* per uid: history of dedup marks, execs and sink writes
  calls,        \* number of EnsureLabels calls made by a direct caller
  prev,         \* summary of the direct caller's previous EnsureLabels call
  seenReady,    \* uids of the pods a notification has shown ready
  firstObs,     \* per uid: whether its first notification showed it ready
  ctl,          \* runController after the workers' start, and server.Serve
  pure          \* argument and result of a function applied on its own

vars == <<now, ctxDone, cache, queue, dirty, processing, shuttingDown, processed,
          nodeLabels, wk, events, calls, prev, seenReady, firstObs, ctl, pure>>

NoKey == <<>>

\* the locals of one EnsureLabels call
NoEnsure ==
  [desired |-> EmptyLabels, steps |-> 0, duration |-> 0, node |-> EmptyLabels,
   stale |-> FALSE, err |-> "nil", gets |-> 0, updates |-> 0, getFails |-> 0,
   updateFails |-> 0, wrote |-> FALSE]

IdleWorker ==
  [pc |-> "idle", key |-> NoKey, pod |-> NoPod, serials |-> <<>>, e |-> NoEnsure,
   err |-> "nil", execs |-> 0, provs |-> 0, writes |-> 0,
   nOk |-> 0, nErr |-> 0, expired |-> FALSE, identifier |-> <<>>, ready |-> FALSE]

\* of the previous direct call: what it was asked, read and did, whether it
\* was clean (no API failure, no write of another client while it ran), and
\* whether another client has written the node since it returned
NoCall ==
  [made |-> FALSE, desired |-> EmptyLabels, node |-> EmptyLabels, updates |-> 0,
   clean |-> FALSE, touched |-> FALSE]

\* the summary a returning call leaves; of a call that was not clean only
\* that is kept
Summary(e, touched) ==
  IF e.err = "nil" /\ e.getFails = 0 /\ e.updateFails = 0 /\ ~touched
  THEN [made |-> TRUE, desired |-> e.desired, node |-> e.node, updates |-> e.updates,
        clean |-> TRUE, touched |-> FALSE]
  ELSE [NoCall EXCEPT !.made = TRUE]

\* runController waits for the signal and the HTTP server serves
Controlling == [pc |-> "waiting", err |-> "nil", server |-> "serving"]

\* no function is being applied on its own
NoPure == [pc |-> "none"]

InitCommon ==
  /\ now = 0
  /\ ctxDone = FALSE
  /\ cache = [k \in Keys |-> NoPod]
  /\ queue = <<>>
  /\ dirty = {}
  /\ processing = {}
  /\ shuttingDown = FALSE
  /\ processed = [u \in {} |-> 0]
  /\ events = [u \in UIDs |-> <<>>]
  /\ calls = 0
  /\ prev = NoCall
  /\ seenReady = {}
  /\ ctl = Controlling

\* the first notifications are not recorded
Unobserved == [u \in UIDs |-> "off"]

Init ==
  /\ InitCommon
  /\ pure = NoPure
  /\ firstObs = Unobserved
  /\ nodeLabels = L2
  /\ wk = [w \in Workers |-> IdleWorker]

\* ---------------------------------------------------------------- workqueue
\* q.Add that queues a key although a worker is processing it
QueueAdd_WhileProcessing(key) ==
  IF shuttingDown \/ key \in dirty
  THEN UNCHANGED <<queue, dirty>>
  ELSE /\ dirty' = dirty \cup {key}
       /\ queue' = Append(queue, key)

\* q.Add(key)
QueueAdd(key) ==
  IF shuttingDown \/ key \in dirty
  THEN UNCHANGED <<queue, dirty>>
  ELSE /\ dirty' = dirty \cup {key}
       /\ queue' = IF key \in processing THEN queue ELSE Append(queue, key)

\* a q.Done that queues the key again whether or not it was added meanwhile
QueueDone_Requeue(key) ==
  /\ processing' = processing \ {key}
  /\ queue' = Append(queue, key)

\* q.Done(key)
QueueDone(key) ==
  /\ processing' = processing \ {key}
  /\ queue' = IF key \in dirty THEN Append(queue, key) ELSE queue

\* ----------------------------------------------------------------- informer
\* cache.MetaNamespaceKeyFunc(pod)
MetaNamespaceKeyFunc(p) == p.key

\* enqueueIfReady without the readiness filter
enqueueIfReady_Always(pod) == QueueAdd(MetaNamespaceKeyFunc(pod))

\* enqueueIfReady(obj)
enqueueIfReady(pod) ==
  IF ~podReady(pod)
  THEN UNCHANGED <<queue, dirty>>
  ELSE QueueAdd(MetaNamespaceKeyFunc(pod))

\* the uids shown ready, where first notifications are recorded
Shown(p) ==
  IF firstObs[p.uid] # "off" /\ podReady(p) THEN seenReady \cup {p.uid} ELSE seenReady

\* whether the first notification of a uid carried a ready pod
Observed(p) ==
  IF firstObs[p.uid] # "none" THEN firstObs
  ELSE [firstObs EXCEPT ![p.uid] = IF podReady(p) THEN "ready" ELSE "notready"]

\* the informer stores an added or updated pod in its cache; AddFunc or
\* UpdateFunc passes it to enqueueIfReady
InformerEvent(key, p) ==
  /\ p # cache[key]
  /\ cache' = [cache EXCEPT ![key] = p]
  /\ enqueueIfReady(p)
  /\ seenReady' = Shown(p)
  /\ firstObs' = Observed(p)
  /\ UNCHANGED <<now, ctxDone, processing, shuttingDown, processed, nodeLabels,
                 wk, events, calls, prev, ctl, pure>>

\* a resync passes a cached pod to UpdateFunc again
InformerResync(key) ==
  /\ cache[key] # NoPod
  /\ enqueueIfReady(cache[key])
  /\ seenReady' = Shown(cache[key])
  /\ UNCHANGED <<now, ctxDone, cache, processing, shuttingDown, processed,
                 nodeLabels, wk, events, calls, prev, firstObs, ctl, pure>>

\* an informer with a DeleteFunc that queues the key of the deleted pod
InformerDelete_Enqueue(key) ==
  /\ cache[key] # NoPod
  /\ cache' = [cache EXCEPT ![key] = NoPod]
  /\ QueueAdd(key)
  /\ UNCHANGED <<now, ctxDone, processing, shuttingDown, processed,
                 nodeLabels, wk, events, calls, prev, seenReady, firstObs, ctl, pure>>

\* a deleted pod leaves the cache; no handler is registered for it
InformerDelete(key) ==
  /\ cache[key] # NoPod
  /\ cache' = [cache EXCEPT ![key] = NoPod]
  /\ UNCHANGED <<now, ctxDone, queue, dirty, processing, shuttingDown, processed,
                 nodeLabels, wk, events, calls, prev, seenReady, firstObs, ctl, pure>>

\* -------------------------------------------------------------------- time
Tick ==
  /\ now < MaxTime
  /\ now' = now + 1
  /\ UNCHANGED <<ctxDone, cache, queue, dirty, processing, shuttingDown, processed,
                 nodeLabels, wk, events, calls, prev, seenReady, firstObs, ctl, pure>>

\* ------------------------------------------------------------------ worker
PctxDone(w) == ctxDone \/ wk[w].expired

\* a sweep that drops an entry as soon as it is cacheTTL old
Swept_AtTTL(m, t) == [u \in {x \in DOMAIN m : ~(t - m[x] >= cacheTTL)} |-> m[u]]

\* the entries uidSet.Has keeps at time t
Swept(m, t) == [u \in {x \in DOMAIN m : ~(t - m[x] > cacheTTL)} |-> m[u]]

\* uidSet.Has(uid), evaluated on the swept map
uidSetHas(m, uid) == uid \in DOMAIN m

\* uidSet.Add that stores nothing
uidSetAdd_NoStore(m, uid, t) == m

\* uidSet.Add(uid) at time t
uidSetAdd(m, uid, t) == [u \in (DOMAIN m) \cup {uid} |-> IF u = uid THEN t ELSE m[u]]

\* q.Get() hands out the head of the queue
Get(w) ==
  /\ wk[w].pc = "idle"
  /\ queue # <<>>
  /\ LET item == Head(queue)
     IN /\ queue' = Tail(queue)
        /\ processing' = processing \cup {item}
        /\ dirty' = dirty \ {item}
        /\ wk' = [wk EXCEPT ![w] = [IdleWorker EXCEPT !.pc = "lookup", !.key = item]]
  /\ UNCHANGED <<now, ctxDone, cache, shuttingDown, processed, nodeLabels,
                 events, calls, prev, seenReady, firstObs, ctl, pure>>

\* q.Get() on an empty queue that is shut down: the worker returns
GetShutdown(w) ==
  /\ wk[w].pc = "idle"
  /\ queue = <<>>
  /\ shuttingDown
  /\ wk' = [wk EXCEPT ![w].pc = "stopped"]
  /\ UNCHANGED <<now, ctxDone, cache, queue, dirty, processing, shuttingDown,
                 processed, nodeLabels, events, calls, prev, seenReady, firstObs, ctl, pure>>

\* processPod without its readiness check
Lookup_NoReadyCheck(w) ==
  /\ wk[w].pc = "lookup"
  /\ LET o == cache[wk[w].key]
     IN IF o = NoPod
        THEN wk' = [wk EXCEPT ![w].pc = "finished"]
        ELSE wk' = [wk EXCEPT ![w].pc = "has", ![w].pod = o, ![w].ready = TRUE]
  /\ UNCHANGED <<now, ctxDone, cache, queue, dirty, processing, shuttingDown,
                 processed, nodeLabels, events, calls, prev, seenReady, firstObs, ctl, pure>>

\* indexer.GetByKey(key), then processPod's readiness check on the pod read
Lookup(w) ==
  /\ wk[w].pc = "lookup"
  /\ LET o == cache[wk[w].key]
     IN IF o = NoPod
        THEN wk' = [wk EXCEPT ![w].pc = "finished"]
        ELSE IF ~podReady(o)
        THEN wk' = [wk EXCEPT ![w].pc = "finished", ![w].pod = o]
        ELSE wk' = [wk EXCEPT ![w].pc = "has", ![w].pod = o, ![w].ready = TRUE]
  /\ UNCHANGED <<now, ctxDone, cache, queue, dirty, processing, shuttingDown,
                 processed, nodeLabels, events, calls, prev, seenReady, firstObs, ctl, pure>>

\* processed.Has(uid)
Has(w) ==
  /\ wk[w].pc = "has"
  /\ processed' = Swept(processed, now)
  /\ wk' = [wk EXCEPT ![w].pc = IF uidSetHas(processed', wk[w].pod.uid)
                                 THEN "finished" ELSE "jitter"]
  /\ UNCHANGED <<now, ctxDone, cache, queue, dirty, processing, shuttingDown,
                 nodeLabels, events, calls, prev, seenReady, firstObs, ctl, pure>>

\* a processPod that goes from the jitter to the exec without the mark
JitterElapsed_NoMark(w) ==
  /\ wk[w].pc = "jitter"
  /\ wk' = [wk EXCEPT ![w].pc = "exec"]
  /\ UNCHANGED <<now, ctxDone, cache, queue, dirty, processing, shuttingDown,
                 processed, nodeLabels, events, calls, prev, seenReady, firstObs, ctl, pure>>

\* the jitter timer fires
JitterElapsed(w) ==
  /\ wk[w].pc = "jitter"
  /\ wk' = [wk EXCEPT ![w].pc = "mark"]
  /\ UNCHANGED <<now, ctxDone, cache, queue, dirty, processing, shuttingDown,
                 processed, nodeLabels, events, calls, prev, seenReady, firstObs, ctl, pure>>

\* ctx.Done() wins the select: processPod returns ctx.Err()
JitterCancelled(w) ==
  /\ wk[w].pc = "jitter"
  /\ ctxDone
  /\ wk' = [wk EXCEPT ![w].pc = "finished", ![w].err = "ctx"]
  /\ UNCHANGED <<now, ctxDone, cache, queue, dirty, processing, shuttingDown,
                 processed, nodeLabels, events, calls, prev, seenReady, firstObs, ctl, pure>>

\* context.WithTimeout, processed.Add(uid)
Mark(w) ==
  /\ wk[w].pc = "mark"
  /\ processed' = uidSetAdd(processed, wk[w].pod.uid, now)
  /\ events' = [events EXCEPT ![wk[w].pod.uid] = Append(@, [kind |-> "mark", at |-> now])]
  /\ wk' = [wk EXCEPT ![w].pc = "exec"]
  /\ UNCHANGED <<now, ctxDone, cache, queue, dirty, processing, shuttingDown,
                 nodeLabels, calls, prev, seenReady, firstObs, ctl, pure>>

\* the per-pod timeout elapses
PodTimeout(w) ==
  /\ wk[w].pc \in {"exec", "attempt", "update", "backoff", "ensured", "provider", "export"}
  /\ calls = 0
  /\ ~wk[w].expired
  /\ wk' = [wk EXCEPT ![w].expired = TRUE]
  /\ UNCHANGED <<now, ctxDone, cache, queue, dirty, processing, shuttingDown,
                 processed, nodeLabels, events, calls, prev, seenReady, firstObs, ctl, pure>>

\* a failed GetSerialNumbers that is not counted
ExecFail_NotCounted(w) ==
  /\ wk[w].pc = "exec"
  /\ wk' = [wk EXCEPT ![w].pc = "finished", ![w].err = "exec", ![w].execs = @ + 1]
  /\ events' = [events EXCEPT ![wk[w].pod.uid] = Append(@, [kind |-> "exec", at |-> now])]
  /\ UNCHANGED <<now, ctxDone, cache, queue, dirty, processing, shuttingDown,
                 processed, nodeLabels, calls, prev, seenReady, firstObs, ctl, pure>>

\* gpu.GetSerialNumbers fails: count the failure and return
ExecFail(w) ==
  /\ wk[w].pc = "exec"
  /\ wk' = [wk EXCEPT ![w].pc = "finished", ![w].err = "exec",
                      ![w].nErr = @ + 1, ![w].execs = @ + 1]
  /\ events' = [events EXCEPT ![wk[w].pod.uid] = Append(@, [kind |-> "exec", at |-> now])]
  /\ UNCHANGED <<now, ctxDone, cache, queue, dirty, processing, shuttingDown,
                 processed, nodeLabels, calls, prev, seenReady, firstObs, ctl, pure>>

\* the locals of EnsureLabels on entry: the desired labels and the backoff
EnsureEntry(serials) ==
  [NoEnsure EXCEPT !.desired = calculateGPULabels(serials), !.steps = maxRetries,
                   !.duration = retryBackoff]

\* gpu.GetSerialNumbers succeeds: return on no serials, else enter
\* node.EnsureLabels
ExecOk(w, serials) ==
  /\ wk[w].pc = "exec"
  /\ ~PctxDone(w)
  /\ IF Len(serials) = 0
     THEN wk' = [wk EXCEPT ![w].pc = "finished", ![w].execs = @ + 1]
     ELSE wk' = [wk EXCEPT ![w].pc = "attempt", ![w].serials = serials,
                           ![w].e = EnsureEntry(serials),
                           ![w].execs = @ + 1]
  /\ events' = [events EXCEPT ![wk[w].pod.uid] = Append(@, [kind |-> "exec", at |-> now])]
  /\ UNCHANGED <<now, ctxDone, cache, queue, dirty, processing, shuttingDown,
                 processed, nodeLabels, calls, prev, seenReady, firstObs, ctl, pure>>

\* ------------------------------------------------------------ EnsureLabels
\* a Step that does not count its steps down
BackoffStep_NoDecrement(steps, duration) ==
  IF duration * 2 > maxRetryBackoff
  THEN [steps |-> 0, duration |-> maxRetryBackoff]
  ELSE [steps |-> steps, duration |-> duration]

\* wait.Backoff.Step: one step less, the duration doubled up to the cap
BackoffStep(steps, duration) ==
  IF duration * 2 > maxRetryBackoff
  THEN [steps |-> 0, duration |-> maxRetryBackoff]
  ELSE [steps |-> steps - 1, duration |-> duration * 2]

\* a retry loop that gives up one step early
Retry_EarlyGiveUp(r) ==
  LET q == [r EXCEPT !.e.node = EmptyLabels, !.e.stale = FALSE]
  IN IF q.e.steps <= 2
     THEN [q EXCEPT !.pc = "ensured", !.e.err = "timeout"]
     ELSE LET b == BackoffStep(q.e.steps, q.e.duration)
          IN [q EXCEPT !.pc = "backoff", !.e.steps = b.steps, !.e.duration = b.duration]

\* the condition returned (false, nil): wait.ExponentialBackoff gives up on
\* its last step and sleeps before the next attempt otherwise
Retry(r) ==
  LET q == [r EXCEPT !.e.node = EmptyLabels, !.e.stale = FALSE]
  IN IF q.e.steps = 1
     THEN [q EXCEPT !.pc = "ensured", !.e.err = "timeout"]
     ELSE LET b == BackoffStep(q.e.steps, q.e.duration)
          IN IF b.steps > 0
             THEN [q EXCEPT !.pc = "backoff", !.e.steps = b.steps,
                            !.e.duration = b.duration]
             ELSE [q EXCEPT !.pc = "ensured", !.e.err = "timeout", !.e.steps = b.steps,
                            !.e.duration = b.duration]

\* Forbidden and Invalid retried like any other failure
Stop_Retries(r, o) == Retry(r)

\* the condition returned an error: Forbidden and Invalid end the loop
Stop(r, o) ==
  [r EXCEPT !.pc = "ensured", !.e.err = o, !.e.node = EmptyLabels, !.e.stale = FALSE]

GetOutcomes == {"ok", "forbidden", "invalid", "error"}

UpdateOutcomes == {"ok", "conflict", "forbidden", "invalid", "error"}

\* attemptLabelUpdate up to the decision to write: labeler.GetNode and
\* needsLabelUpdate
AttemptGet(w, o) ==
  /\ wk[w].pc = "attempt"
  /\ o \in GetOutcomes
  /\ PctxDone(w) => o = "error"
  /\ LET r == [wk[w] EXCEPT !.e.gets = @ + 1]
         f == [r EXCEPT !.e.getFails = @ + 1]
     IN wk' = [wk EXCEPT ![w] =
          IF o = "ok"
          THEN IF ~needsLabelUpdate(nodeLabels, r.e.desired)
               THEN [r EXCEPT !.pc = "ensured", !.e.err = "nil", !.e.node = nodeLabels]
               ELSE [r EXCEPT !.pc = "update", !.e.node = nodeLabels, !.e.stale = FALSE]
          ELSE IF o \in {"forbidden", "invalid"} THEN Stop(f, o)
          ELSE Retry(f)]
  /\ UNCHANGED <<now, ctxDone, cache, queue, dirty, processing, shuttingDown,
                 processed, nodeLabels, events, calls, prev, seenReady, firstObs, ctl, pure>>

\* the node snapshots other callers hold are stale once the node is written
Staled(w) ==
  [x \in Workers |-> IF x # w /\ wk[x].pc = "update"
                     THEN [wk[x] EXCEPT !.e.stale = TRUE] ELSE wk[x]]

\* attemptLabelUpdate from the write on: labeler.UpdateNode with the cleared
\* and re-applied labels; the API server rejects a stale node with a conflict
AttemptUpdate(w, o) ==
  /\ wk[w].pc = "update"
  /\ o \in UpdateOutcomes
  /\ PctxDone(w) => o = "error"
  /\ o = "ok" => ~wk[w].e.stale
  /\ o = "conflict" => wk[w].e.stale
  /\ LET r == [wk[w] EXCEPT !.e.updates = @ + 1]
         f == [r EXCEPT !.e.updateFails = @ + 1]
         written == updatedLabels(r.e.node, r.e.desired)
     IN IF o = "ok"
        THEN /\ nodeLabels' = written
             /\ wk' = [Staled(w) EXCEPT ![w] =
                         [r EXCEPT !.pc = "ensured", !.e.err = "nil", !.e.wrote = TRUE]]
        ELSE /\ nodeLabels' = nodeLabels
             /\ wk' = [wk EXCEPT ![w] =
                         IF o \in {"forbidden", "invalid"} THEN Stop(f, o) ELSE Retry(f)]
  /\ UNCHANGED <<now, ctxDone, cache, queue, dirty, processing, shuttingDown,
                 processed, events, calls, prev, seenReady, firstObs, ctl, pure>>

\* time.Sleep(backoff.Step()) is over
Backoff(w) ==
  /\ wk[w].pc = "backoff"
  /\ wk' = [wk EXCEPT ![w].pc = "attempt"]
  /\ UNCHANGED <<now, ctxDone, cache, queue, dirty, processing, shuttingDown,
                 processed, nodeLabels, events, calls, prev, seenReady, firstObs, ctl, pure>>

\* another client of the API server replaces the node's labels
ExternalNodeUpdate(l) ==
  /\ l \in NodeLabelInputs
  /\ l # nodeLabels
  /\ nodeLabels' = l
  /\ wk' = [x \in Workers |-> [wk[x] EXCEPT !.e.stale = (@ \/ wk[x].pc = "update")]]
  /\ prev' = [prev EXCEPT !.touched = TRUE]
  /\ UNCHANGED <<now, ctxDone, cache, queue, dirty, processing, shuttingDown,
                 processed, events, calls, seenReady, firstObs, ctl, pure>>

\* a direct caller, as the package's tests are, calls EnsureLabels
CallEnsure(w, serials) ==
  /\ wk[w].pc = "caller"
  /\ calls < MaxCalls
  /\ serials \in SerialsInputs
  /\ calls' = calls + 1
  /\ wk' = [wk EXCEPT ![w].pc = "attempt", ![w].serials = serials,
                      ![w].e = EnsureEntry(serials)]
  /\ UNCHANGED <<now, ctxDone, cache, queue, dirty, processing, shuttingDown,
                 processed, nodeLabels, events, prev, seenReady, firstObs, ctl, pure>>

\* EnsureLabels returns to the direct caller
ReturnEnsure(w) ==
  /\ wk[w].pc = "ensured"
  /\ calls > 0
  /\ prev' = Summary(wk[w].e, prev.touched)
  /\ wk' = [wk EXCEPT ![w].pc = "caller", ![w].e = NoEnsure, ![w].serials = <<>>]
  /\ UNCHANGED <<now, ctxDone, cache, queue, dirty, processing, shuttingDown,
                 processed, nodeLabels, events, calls, seenReady, firstObs, ctl, pure>>

\* ------------------------------------------------------------ node provider
RECURSIVE Split(_, _)
\* strings.Split(s, sep) for a one-token separator
Split(s, sep) ==
  IF \A i \in 1..Len(s) : s[i] # sep THEN <<s>>
  ELSE LET i == CHOOSE x \in 1..Len(s) : s[x] = sep /\ \A y \in 1..(x - 1) : s[y] # sep
       IN <<SubSeq(s, 1, i - 1)>> \o Split(SubSeq(s, i + 1, Len(s)), sep)

LowerToken(c) ==
  CASE c = "AWS" -> "aws" [] c = "A" -> "a" [] c = "C" -> "c" [] c = "G" -> "g"
    [] c = "N" -> "n" [] OTHER -> c

ToLower(s) == [i \in 1..Len(s) |-> LowerToken(s[i])]

TrimPrefix(s, prefix) ==
  IF HasPrefix(s, prefix) THEN SubSeq(s, Len(prefix) + 1, Len(s)) ELSE s

\* parseNodeInfo that keeps the case of the scheme
parseNodeInfo_NoLower(id) ==
  IF id = <<>> THEN [err |-> TRUE, Provider |-> <<>>, Identifier |-> <<>>, Raw |-> id]
  ELSE LET parts == Split(id, ":")
       IN IF Len(parts) < 2
          THEN [err |-> TRUE, Provider |-> <<>>, Identifier |-> <<>>, Raw |-> id]
          ELSE LET provider == ToLower(parts[1])
                   details == TrimPrefix(id, provider \o <<":", "/", "/">>)
                   subParts == Split(details, "/")
               IN [err |-> FALSE, Provider |-> parts[1],
                   Identifier |-> subParts[Len(subParts)], Raw |-> id]

\* parseNodeInfo(log, providerID); err stands for the nil *Info and the error
parseNodeInfo(id) ==
  IF id = <<>> THEN [err |-> TRUE, Provider |-> <<>>, Identifier |-> <<>>, Raw |-> id]
  ELSE LET parts == Split(id, ":")
       IN IF Len(parts) < 2
          THEN [err |-> TRUE, Provider |-> <<>>, Identifier |-> <<>>, Raw |-> id]
          ELSE LET provider == ToLower(parts[1])
                   details == TrimPrefix(id, provider \o <<":", "/", "/">>)
                   subParts == Split(details, "/")
               IN [err |-> FALSE, Provider |-> provider,
                   Identifier |-> subParts[Len(subParts)], Raw |-> id]

\* ---------------------------------------------------- processPod, continued
\* a processPod that goes on to the provider lookup whatever EnsureLabels
\* returned
AfterEnsure_IgnoreErr(w) ==
  /\ wk[w].pc = "ensured"
  /\ calls = 0
  /\ wk' = [wk EXCEPT ![w] = [wk[w] EXCEPT !.pc = "provider", !.e = NoEnsure]]
  /\ UNCHANGED <<now, ctxDone, cache, queue, dirty, processing, shuttingDown,
                 processed, nodeLabels, events, calls, prev, seenReady, firstObs, ctl, pure>>

\* processPod after node.EnsureLabels returned
AfterEnsure(w) ==
  /\ wk[w].pc = "ensured"
  /\ calls = 0
  /\ wk' = [wk EXCEPT ![w] =
              IF wk[w].e.err # "nil"
              THEN [wk[w] EXCEPT !.pc = "finished", !.err = wk[w].e.err, !.nErr = @ + 1,
                                 !.e = NoEnsure]
              ELSE [wk[w] EXCEPT !.pc = "provider", !.e = NoEnsure]]
  /\ UNCHANGED <<now, ctxDone, cache, queue, dirty, processing, shuttingDown,
                 processed, nodeLabels, events, calls, prev, seenReady, firstObs, ctl, pure>>

\* node.GetNodeProviderID fails to read the node
ProviderFail(w) ==
  /\ wk[w].pc = "provider"
  /\ wk' = [wk EXCEPT ![w].pc = "finished", ![w].err = "provider",
                      ![w].nErr = @ + 1, ![w].provs = @ + 1]
  /\ UNCHANGED <<now, ctxDone, cache, queue, dirty, processing, shuttingDown,
                 processed, nodeLabels, events, calls, prev, seenReady, firstObs, ctl, pure>>

\* node.GetNodeProviderID reads the node and parses its provider ID; an empty
\* identifier is counted as a failure and processPod goes on
ProviderOk(w, providerID) ==
  /\ wk[w].pc = "provider"
  /\ providerID \in ProviderInputs
  /\ ~PctxDone(w)
  /\ LET info == parseNodeInfo(providerID)
         r == [wk[w] EXCEPT !.provs = @ + 1]
     IN wk' = [wk EXCEPT ![w] =
          IF providerID = <<>> \/ info.err
          THEN [r EXCEPT !.pc = "finished", !.err = "provider", !.nErr = @ + 1]
          ELSE IF info.Identifier = <<>>
          THEN [r EXCEPT !.pc = "export", !.identifier = info.Identifier, !.nErr = @ + 1]
          ELSE [r EXCEPT !.pc = "export", !.identifier = info.Identifier]]
  /\ UNCHANGED <<now, ctxDone, cache, queue, dirty, processing, shuttingDown,
                 processed, nodeLabels, events, calls, prev, seenReady, firstObs, ctl, pure>>

RECURSIVE GroupRecords(_, _)
\* Export's records for one group: one per GPU serial that validates
GroupRecords(chassis, gpus) ==
  IF gpus = <<>> THEN <<>>
  ELSE LET rest == GroupRecords(chassis, Tail(gpus))
       IN IF Head(gpus) = <<>> THEN rest
          ELSE <<[chassis |-> chassis, gpu |-> Head(gpus)]>> \o rest

RECURSIVE Records(_)
\* Export's records: groups that are nil or have an empty chassis are skipped
Records(serials) ==
  IF serials = <<>> THEN <<>>
  ELSE LET cn == Head(serials)
       IN IF cn = NilSerials \/ cn.Chassis = <<>> THEN Records(Tail(serials))
          ELSE GroupRecords(cn.Chassis, cn.GPU) \o Records(Tail(serials))

\* strings.TrimSpace(s) == ""
Blank(s) == \A i \in 1..Len(s) : s[i] = " "

\* an Export without the check of the node argument: its records fail
\* validation and it returns nil
ExportNoWrite_NoNodeCheck(w) ==
  /\ wk[w].pc = "export"
  /\ Blank(wk[w].identifier) \/ Records(wk[w].serials) = <<>>
  /\ wk' = [wk EXCEPT ![w] = [wk[w] EXCEPT !.pc = "finished", !.nOk = @ + 1]]
  /\ UNCHANGED <<now, ctxDone, cache, queue, dirty, processing, shuttingDown,
                 processed, nodeLabels, events, calls, prev, seenReady, firstObs, ctl, pure>>

\* Exporter.Export returns without calling the backend
ExportNoWrite(w) ==
  /\ wk[w].pc = "export"
  /\ Blank(wk[w].identifier) \/ Records(wk[w].serials) = <<>>
  /\ wk' = [wk EXCEPT ![w] =
              IF Blank(wk[w].identifier)
              THEN [wk[w] EXCEPT !.pc = "finished", !.err = "export", !.nErr = @ + 1]
              ELSE [wk[w] EXCEPT !.pc = "finished", !.nOk = @ + 1]]
  /\ UNCHANGED <<now, ctxDone, cache, queue, dirty, processing, shuttingDown,
                 processed, nodeLabels, events, calls, prev, seenReady, firstObs, ctl, pure>>

\* Exporter.Export hands its records to backend.Write
ExportWrite(w, ok) ==
  /\ wk[w].pc = "export"
  /\ ~Blank(wk[w].identifier)
  /\ Records(wk[w].serials) # <<>>
  /\ IF ok
     THEN /\ events' = [events EXCEPT ![wk[w].pod.uid] =
                          Append(@, [kind |-> "write", at |-> now])]
          /\ wk' = [wk EXCEPT ![w].pc = "finished", ![w].nOk = @ + 1,
                              ![w].writes = @ + 1]
     ELSE /\ events' = events
          /\ wk' = [wk EXCEPT ![w].pc = "finished", ![w].err = "export",
                              ![w].nErr = @ + 1, ![w].writes = @ + 1]
  /\ UNCHANGED <<now, ctxDone, cache, queue, dirty, processing, shuttingDown,
                 processed, nodeLabels, calls, prev, seenReady, firstObs, ctl, pure>>

\* a worker that leaves its loop when processPod returned an error
Done_StopOnError(w) ==
  /\ wk[w].pc = "finished"
  /\ QueueDone(wk[w].key)
  /\ wk' = [wk EXCEPT ![w] = IF wk[w].err # "nil"
                               THEN [IdleWorker EXCEPT !.pc = "stopped"]
                               ELSE IdleWorker]
  /\ UNCHANGED <<now, ctxDone, cache, dirty, shuttingDown, processed, nodeLabels,
                 events, calls, prev, seenReady, firstObs, ctl, pure>>

\* the end of do's closure: q.Forget(key) and the deferred q.Done(key)
Done(w) ==
  /\ wk[w].pc = "finished"
  /\ QueueDone(wk[w].key)
  /\ wk' = [wk EXCEPT ![w] = IdleWorker]
  /\ UNCHANGED <<now, ctxDone, cache, dirty, shuttingDown, processed, nodeLabels,
                 events, calls, prev, seenReady, firstObs, ctl, pure>>

\* a signal cancels the root context
Cancel ==
  /\ ~ctxDone
  /\ ctxDone' = TRUE
  /\ UNCHANGED <<now, cache, queue, dirty, processing, shuttingDown, processed,
                 nodeLabels, wk, events, calls, prev, seenReady, firstObs, ctl, pure>>

\* runController after <-ctx.Done(): q.ShutDownWithDrain() marks the queue
\* as shutting down and waits
ShutDownWithDrain ==
  /\ ctxDone
  /\ ctl.pc = "waiting"
  /\ shuttingDown' = TRUE
  /\ ctl' = [ctl EXCEPT !.pc = "draining"]
  /\ UNCHANGED <<now, ctxDone, cache, queue, dirty, processing, processed,
                 nodeLabels, wk, events, calls, prev, seenReady, firstObs, pure>>

\* a shutdown that does not wait for the keys in processing
DrainReturn_NoWait ==
  /\ ctl.pc = "draining"
  /\ ctl' = [ctl EXCEPT !.pc = "returned", !.err = "nil"]
  /\ UNCHANGED <<now, ctxDone, cache, queue, dirty, processing, shuttingDown, processed,
                 nodeLabels, wk, events, calls, prev, seenReady, firstObs, pure>>

\* q.ShutDownWithDrain() returns once no key is in processing; runController
\* returns nil
DrainReturn ==
  /\ ctl.pc = "draining"
  /\ processing = {}
  /\ ctl' = [ctl EXCEPT !.pc = "returned", !.err = "nil"]
  /\ UNCHANGED <<now, ctxDone, cache, queue, dirty, processing, shuttingDown, processed,
                 nodeLabels, wk, events, calls, prev, seenReady, firstObs, pure>>

\* server.Serve: on ctx.Done() srv.Shutdown makes ListenAndServe return
\* http.ErrServerClosed, and Serve returns
ServeShutdown ==
  /\ ctxDone
  /\ ctl.server = "serving"
  /\ ctl' = [ctl EXCEPT !.server = "returned"]
  /\ UNCHANGED <<now, ctxDone, cache, queue, dirty, processing, shuttingDown, processed,
                 nodeLabels, wk, events, calls, prev, seenReady, firstObs, pure>>

\* server.Serve: ListenAndServe fails, Serve logs the error and returns
ServeFail ==
  /\ ~ctxDone
  /\ ctl.server = "serving"
  /\ ctl' = [ctl EXCEPT !.server = "returned"]
  /\ UNCHANGED <<now, ctxDone, cache, queue, dirty, processing, shuttingDown, processed,
                 nodeLabels, wk, events, calls, prev, seenReady, firstObs, pure>>

\* ------------------------------------------------------------ cache sync
\* runController has started the HTTP server and the informer and waits in
\* cache.WaitForCacheSync; no worker goroutine exists yet
Syncing == [pc |-> "syncing", err |-> "nil", server |-> "serving", synced |-> FALSE]

\* a worker goroutine that has not been started
Unstarted == [IdleWorker EXCEPT !.pc = "unstarted"]

InitSync ==
  /\ now = 0
  /\ ctxDone = FALSE
  /\ cache = [k \in Keys |-> NoPod]
  /\ queue = <<>>
  /\ dirty = {}
  /\ processing = {}
  /\ shuttingDown = FALSE
  /\ processed = [u \in {} |-> 0]
  /\ events = [u \in UIDs |-> <<>>]
  /\ calls = 0
  /\ prev = NoCall
  /\ seenReady = {}
  /\ ctl = Syncing
  /\ pure = NoPure
  /\ firstObs = Unobserved
  /\ nodeLabels = L2
  /\ wk = [w \in Workers |-> Unstarted]

\* the informer goroutine has delivered its initial list: informer.HasSynced
\* is true from now on; the informer runs until stopCh is closed when
\* runController returns
HasSynced ==
  /\ ctl.pc # "returned"
  /\ ~ctl.synced
  /\ ctl' = [ctl EXCEPT !.synced = TRUE]
  /\ UNCHANGED <<now, ctxDone, cache, queue, dirty, processing, shuttingDown, processed,
                 nodeLabels, wk, events, calls, prev, seenReady, firstObs, pure>>

\* a runController that starts its workers without waiting for the cache
WaitSynced_NoWait ==
  /\ ctl.pc = "syncing"
  /\ ctl' = [ctl EXCEPT !.pc = "waiting"]
  /\ wk' = [w \in Workers |-> IdleWorker]
  /\ UNCHANGED <<now, ctxDone, cache, queue, dirty, processing, shuttingDown, processed,
                 nodeLabels, events, calls, prev, seenReady, firstObs, pure>>

\* cache.WaitForCacheSync polls informer.HasSynced and returns true when it
\* sees it true; runController starts the workers and waits for the signal
WaitSynced ==
  /\ ctl.pc = "syncing"
  /\ ctl.synced
  /\ ctl' = [ctl EXCEPT !.pc = "waiting"]
  /\ wk' = [w \in Workers |-> IdleWorker]
  /\ UNCHANGED <<now, ctxDone, cache, queue, dirty, processing, shuttingDown, processed,
                 nodeLabels, events, calls, prev, seenReady, firstObs, pure>>

\* cache.WaitForCacheSync finds ctx.Done() closed and returns false:
\* runController returns the error, and its deferred q.ShutDown() shuts the
\* queue down. With the channel closed and the cache synced the poll can end
\* either way.
WaitStopped ==
  /\ ctl.pc = "syncing"
  /\ ctxDone
  /\ ctl' = [ctl EXCEPT !.pc = "returned", !.err = "sync"]
  /\ shuttingDown' = TRUE
  /\ UNCHANGED <<now, ctxDone, cache, queue, dirty, processing, processed,
                 nodeLabels, wk, events, calls, prev, seenReady, firstObs, pure>>

\* the controller from the start of its informer: cache sync, workers, one
\* pod, the signal and the shutdown
NextSync ==
  \/ \E p \in PodsOf(Key1) : InformerEvent(Key1, p)
  \/ HasSynced
  \/ WaitSynced
  \/ WaitStopped
  \/ Cancel
  \/ ShutDownWithDrain
  \/ DrainReturn
  \/ ServeShutdown
  \/ ServeFail
  \/ \E w \in Workers : Get(w)
  \/ \E w \in Workers : GetShutdown(w)
  \/ \E w \in Workers : Lookup(w)
  \/ \E w \in Workers : Has(w)
  \/ \E w \in Workers : JitterElapsed(w)
  \/ \E w \in Workers : JitterCancelled(w)
  \/ \E w \in Workers : Mark(w)
  \/ \E w \in Workers : ExecFail(w)
  \/ \E w \in Workers : ExecOk(w, S1)
  \/ \E w \in Workers : \E o \in {"ok", "error"} : AttemptGet(w, o)
  \/ \E w \in Workers : \E o \in {"ok", "error"} : AttemptUpdate(w, o)
  \/ \E w \in Workers : Backoff(w)
  \/ \E w \in Workers : AfterEnsure(w)
  \/ \E w \in Workers : ProviderFail(w)
  \/ \E w \in Workers : ProviderOk(w, P1)
  \/ \E w \in Workers : \E ok \in BOOLEAN : ExportWrite(w, ok)
  \/ \E w \in Workers : Done(w)

SpecSync ==
  /\ InitSync
  /\ [][NextSync]_vars
  /\ WF_vars(WaitSynced \/ WaitStopped)

\* ------------------------------------------------------- concurrent ensure
\* every worker is in processPod with the serials of its pod, about to call
\* node.EnsureLabels for the one node
InitRace ==
  /\ InitCommon
  /\ pure = NoPure
  /\ firstObs = Unobserved
  /\ nodeLabels \in NodeLabelInputs
  /\ wk = [w \in Workers |-> [IdleWorker EXCEPT !.pc = "caller"]]

\* the workers ensure the labels of the node at the same time; the API
\* server answers every read and rejects exactly the stale updates
NextRace ==
  \/ \E w \in Workers : \E s \in SerialsInputs : CallEnsure(w, s)
  \/ \E w \in Workers : AttemptGet(w, "ok")
  \/ \E w \in Workers : \E o \in {"ok", "conflict"} : AttemptUpdate(w, o)
  \/ \E w \in Workers : Backoff(w)

SpecRace == InitRace /\ [][NextRace]_vars

\* ------------------------------------------------------------- the uidSet
\* the workers call processed.Has and processed.Add directly; `processed` is
\* the map s.m, pure.mu the holder of s.mu (0: unlocked), pure.op the call of
\* each worker, pure.added the stamp of the last Add of each UID and
\* pure.done whether an Add of the UID has returned

\* the UIDs of the pods the workers have at hand
SetUIDs == {"U1", "U2"}

\* a worker outside any call on the set
NoOp ==
  [kind |-> "none", uid |-> "none", pc |-> "idle", now |-> 0, todo |-> {},
   cur |-> "none", exp |-> FALSE, must |-> FALSE, result |-> FALSE]

InitSet ==
  /\ InitCommon
  /\ firstObs = Unobserved
  /\ nodeLabels = L2
  /\ wk = [w \in Workers |-> IdleWorker]
  /\ pure = [pc |-> "set", mu |-> 0, added |-> [u \in SetUIDs |-> -1],
             done |-> [u \in SetUIDs |-> FALSE], op |-> [w \in Workers |-> NoOp]]

\* a worker calls s.Has(uid) or s.Add(uid)
SetCall(w, kind, uid) ==
  /\ pure.op[w].pc = "idle"
  /\ pure' = [pure EXCEPT !.op[w] = [NoOp EXCEPT !.kind = kind, !.uid = uid, !.pc = "lock",
                                                 !.must = (kind = "has" /\ pure.done[uid])]]
  /\ processed' = processed
  /\ UNCHANGED <<now, ctxDone, cache, queue, dirty, processing, shuttingDown,
                 nodeLabels, wk, events, calls, prev, seenReady, firstObs, ctl>>

\* a lock that excludes nobody
SetLock_NoMutex(w) ==
  /\ pure.op[w].pc = "lock"
  /\ pure' = [pure EXCEPT !.mu = w,
                          !.op[w] = [@ EXCEPT !.pc = "body", !.now = now,
                                              !.todo = DOMAIN processed]]
  /\ processed' = processed
  /\ UNCHANGED <<now, ctxDone, cache, queue, dirty, processing, shuttingDown,
                 nodeLabels, wk, events, calls, prev, seenReady, firstObs, ctl>>

\* s.mu.Lock(); in Has, now := time.Now() and the range over s.m starts
SetLock(w) ==
  /\ pure.op[w].pc = "lock"
  /\ pure.mu = 0
  /\ pure' = [pure EXCEPT !.mu = w,
                          !.op[w] = [@ EXCEPT !.pc = "body", !.now = now,
                                              !.todo = DOMAIN processed]]
  /\ processed' = processed
  /\ UNCHANGED <<now, ctxDone, cache, queue, dirty, processing, shuttingDown,
                 nodeLabels, wk, events, calls, prev, seenReady, firstObs, ctl>>

\* Add: s.m[uid] = time.Now()
SetStore(w) ==
  /\ pure.op[w].pc = "body"
  /\ pure.op[w].kind = "add"
  /\ processed' = uidSetAdd(processed, pure.op[w].uid, now)
  /\ pure' = [pure EXCEPT !.added[pure.op[w].uid] = now, !.op[w].pc = "unlock"]
  /\ UNCHANGED <<now, ctxDone, cache, queue, dirty, processing, shuttingDown,
                 nodeLabels, wk, events, calls, prev, seenReady, firstObs, ctl>>

\* Has: the range hands out the next entry k, t of the map and the loop
\* body evaluates now.Sub(t) > cacheTTL
SetRange(w, k) ==
  /\ pure.op[w].pc = "body"
  /\ pure.op[w].kind = "has"
  /\ k \in pure.op[w].todo
  /\ pure' = [pure EXCEPT !.op[w] =
       [@ EXCEPT !.todo = @ \ {k}, !.cur = k, !.pc = "delete",
                 !.exp = (k \in DOMAIN processed /\ pure.op[w].now - processed[k] > cacheTTL)]]
  /\ processed' = processed
  /\ UNCHANGED <<now, ctxDone, cache, queue, dirty, processing, shuttingDown,
                 nodeLabels, wk, events, calls, prev, seenReady, firstObs, ctl>>

\* a loop body that deletes nothing
SetDelete_Keep(w) ==
  /\ pure.op[w].pc = "delete"
  /\ processed' = processed
  /\ pure' = [pure EXCEPT !.op[w].pc = "body", !.op[w].cur = "none", !.op[w].exp = FALSE]
  /\ UNCHANGED <<now, ctxDone, cache, queue, dirty, processing, shuttingDown,
                 nodeLabels, wk, events, calls, prev, seenReady, firstObs, ctl>>

\* Has: delete(s.m, k) when the entry is older than cacheTTL
SetDelete(w) ==
  /\ pure.op[w].pc = "delete"
  /\ processed' = IF pure.op[w].exp
                  THEN [u \in (DOMAIN processed) \ {pure.op[w].cur} |-> processed[u]]
                  ELSE processed
  /\ pure' = [pure EXCEPT !.op[w].pc = "body", !.op[w].cur = "none", !.op[w].exp = FALSE]
  /\ UNCHANGED <<now, ctxDone, cache, queue, dirty, processing, shuttingDown,
                 nodeLabels, wk, events, calls, prev, seenReady, firstObs, ctl>>

\* Has: _, exists := s.m[uid] after the range has ended
SetLookup(w) ==
  /\ pure.op[w].pc = "body"
  /\ pure.op[w].kind = "has"
  /\ pure.op[w].todo = {}
  /\ pure' = [pure EXCEPT !.op[w].pc = "unlock",
                          !.op[w].result = uidSetHas(processed, pure.op[w].uid)]
  /\ processed' = processed
  /\ UNCHANGED <<now, ctxDone, cache, queue, dirty, processing, shuttingDown,
                 nodeLabels, wk, events, calls, prev, seenReady, firstObs, ctl>>

\* the deferred s.mu.Unlock(); the call returns
SetUnlock(w) ==
  /\ pure.op[w].pc = "unlock"
  /\ pure' = [pure EXCEPT !.mu = IF @ = w THEN 0 ELSE @,
                          !.done[pure.op[w].uid] = (@ \/ pure.op[w].kind = "add"),
                          !.op[w] = NoOp]
  /\ processed' = processed
  /\ UNCHANGED <<now, ctxDone, cache, queue, dirty, processing, shuttingDown,
                 nodeLabels, wk, events, calls, prev, seenReady, firstObs, ctl>>

\* the workers use the set while the clock advances
NextSet ==
  \/ \E w \in Workers : \E kind \in {"add", "has"} : \E uid \in SetUIDs : SetCall(w, kind, uid)
  \/ \E w \in Workers : SetLock(w)
  \/ \E w \in Workers : SetStore(w)
  \/ \E w \in Workers : \E k \in SetUIDs : SetRange(w, k)
  \/ \E w \in Workers : SetDelete(w)
  \/ \E w \in Workers : SetLookup(w)
  \/ \E w \in Workers : SetUnlock(w)
  \/ Tick

SpecSet == InitSet /\ [][NextSet]_vars

\* ------------------------------------------------------- relational sink
\* postgres.Exporter.Write on one batch. pure.err is the variable err of the
\* function body, which the deferred closure reads; pure.ret is the value
\* the function returns (the result is not named); pure.tx is the state of
\* the transaction, pure.pending the rows inserted in it and pure.persisted
\* the rows of the batch the table holds.
MaxRows == 3

\* the batches: records and nil entries
BatchInputs == UNION {[1..n -> {"record", "nil"}] : n \in 0..MaxRows}

InitTx ==
  /\ InitCommon
  /\ firstObs = Unobserved
  /\ nodeLabels = L2
  /\ wk = [w \in Workers |-> IdleWorker]
  /\ \E b \in BatchInputs :
       pure = [pc |-> "begin", records |-> b, i |-> 1, tx |-> "none", pending |-> 0,
               persisted |-> 0, err |-> "nil", ret |-> "nil", failed |-> "none",
               commits |-> 0, rollbacks |-> 0]

\* len(records) == 0 returns nil; otherwise e.db.BeginTx, whose error is
\* returned before the closure is deferred
TxBegin(ok) ==
  /\ pure.pc = "begin"
  /\ pure' = IF Len(pure.records) = 0 THEN [pure EXCEPT !.pc = "returned"]
             ELSE IF ok THEN [pure EXCEPT !.pc = "prepare", !.tx = "open"]
             ELSE [pure EXCEPT !.pc = "returned", !.err = "begin", !.ret = "begin",
                               !.failed = "begin"]
  /\ UNCHANGED <<now, ctxDone, cache, queue, dirty, processing, shuttingDown, processed,
                 nodeLabels, wk, events, calls, prev, seenReady, firstObs, ctl>>

\* stmt, err := tx.PrepareContext assigns the err of the function body
TxPrepare(ok) ==
  /\ pure.pc = "prepare"
  /\ pure' = IF ok THEN [pure EXCEPT !.pc = "insert"]
             ELSE [pure EXCEPT !.pc = "deferred", !.err = "prepare", !.ret = "prepare",
                               !.failed = "prepare"]
  /\ UNCHANGED <<now, ctxDone, cache, queue, dirty, processing, shuttingDown, processed,
                 nodeLabels, wk, events, calls, prev, seenReady, firstObs, ctl>>

\* one pass of the loop: a nil record is skipped; _, err := stmt.ExecContext
\* declares an err of the loop body, and its error is returned while the err
\* of the function body stays nil; the failed statement aborts the
\* transaction
TxInsert(ok) ==
  /\ pure.pc = "insert"
  /\ pure.i <= Len(pure.records)
  /\ pure' = IF pure.records[pure.i] = "nil" THEN [pure EXCEPT !.i = @ + 1]
             ELSE IF ok THEN [pure EXCEPT !.i = @ + 1, !.pending = @ + 1]
             ELSE [pure EXCEPT !.pc = "deferred", !.tx = "failed", !.ret = "insert",
                               !.failed = "insert"]
  /\ UNCHANGED <<now, ctxDone, cache, queue, dirty, processing, shuttingDown, processed,
                 nodeLabels, wk, events, calls, prev, seenReady, firstObs, ctl>>

\* after the loop: if err := tx.Commit(); err != nil declares an err of the
\* if statement; a failed commit leaves nothing behind
TxCommit(ok) ==
  /\ pure.pc = "insert"
  /\ pure.i > Len(pure.records)
  /\ pure' = IF ok
             THEN [pure EXCEPT !.pc = "deferred", !.tx = "committed", !.commits = @ + 1,
                               !.persisted = pure.pending]
             ELSE [pure EXCEPT !.pc = "deferred", !.tx = "rolledback", !.commits = @ + 1,
                               !.ret = "commit", !.failed = "commit"]
  /\ UNCHANGED <<now, ctxDone, cache, queue, dirty, processing, shuttingDown, processed,
                 nodeLabels, wk, events, calls, prev, seenReady, firstObs, ctl>>

\* the deferred closure: tx.Rollback() when the err of the function body is
\* set, tx.Commit() otherwise; a Commit of a finished transaction returns
\* sql.ErrTxDone, a Commit of an aborted one makes the driver roll it back,
\* and the closure's assignment to err does not reach the returned value
TxDeferred(ok) ==
  /\ pure.pc = "deferred"
  /\ pure' =
       IF pure.err # "nil"
       THEN [pure EXCEPT !.pc = "returned", !.rollbacks = @ + 1,
                         !.tx = IF @ \in {"open", "failed"} THEN "rolledback" ELSE @]
       ELSE IF pure.tx = "open" /\ ok
       THEN [pure EXCEPT !.pc = "returned", !.commits = @ + 1, !.tx = "committed",
                         !.persisted = pure.pending]
       ELSE [pure EXCEPT !.pc = "returned", !.commits = @ + 1, !.err = "commit",
                         !.tx = IF @ \in {"open", "failed"} THEN "rolledback" ELSE @]
  /\ UNCHANGED <<now, ctxDone, cache, queue, dirty, processing, shuttingDown, processed,
                 nodeLabels, wk, events, calls, prev, seenReady, firstObs, ctl>>

NextTx ==
  \/ \E ok \in BOOLEAN : TxBegin(ok)
  \/ \E ok \in BOOLEAN : TxPrepare(ok)
  \/ \E ok \in BOOLEAN : TxInsert(ok)
  \/ \E ok \in BOOLEAN : TxCommit(ok)
  \/ \E ok \in BOOLEAN : TxDeferred(ok)

SpecTx == InitTx /\ [][NextTx]_vars

\* ---------------------------------------------------------------- exec
\* what the stream of one exec leaves: the two buffers and the error of
\* StreamWithContext (nil, an exit error with its status, or another error)
StreamInputs ==
  [stdout : {<<>>, <<"x">>, <<"x", "y">>}, stderr : {<<>>, <<"e">>, <<"e", "f">>},
   err : {"nil", "exit", "transport"}, status : {1, 2}, created : BOOLEAN]

\* an execShell that looks at the stream error before the stderr buffer
execShell_ErrFirst(in) ==
  IF ~in.created THEN [out |-> <<>>, err |-> "executor", status |-> 0, msg |-> <<>>]
  ELSE IF in.err = "nil" THEN [out |-> in.stdout, err |-> "nil", status |-> 0, msg |-> <<>>]
  ELSE IF in.stderr # <<>>
  THEN [out |-> <<>>, err |-> "stderr", status |-> 0, msg |-> in.stderr]
  ELSE IF in.err = "exit"
  THEN [out |-> in.stdout, err |-> "exit", status |-> in.status, msg |-> <<>>]
  ELSE [out |-> in.stdout, err |-> "stream", status |-> 0, msg |-> <<>>]

\* execShell from the creation of the executor on: the string and the error
\* it returns
execShell(in) ==
  IF ~in.created THEN [out |-> <<>>, err |-> "executor", status |-> 0, msg |-> <<>>]
  ELSE IF in.stderr # <<>>
  THEN [out |-> <<>>, err |-> "stderr", status |-> 0, msg |-> in.stderr]
  ELSE IF in.err = "nil" THEN [out |-> in.stdout, err |-> "nil", status |-> 0, msg |-> <<>>]
  ELSE IF in.err = "exit"
  THEN [out |-> in.stdout, err |-> "exit", status |-> in.status, msg |-> <<>>]
  ELSE [out |-> in.stdout, err |-> "stream", status |-> 0, msg |-> <<>>]

InitExec ==
  /\ InitCommon
  /\ firstObs = Unobserved
  /\ nodeLabels = L2
  /\ wk = [w \in Workers |-> IdleWorker]
  /\ \E in \in StreamInputs :
       pure = [pc |-> "streamed", in |-> in,
               res |-> [out |-> <<>>, err |-> "nil", status |-> 0, msg |-> <<>>]]

ExecShell ==
  /\ pure.pc = "streamed"
  /\ pure' = [pure EXCEPT !.pc = "classified", !.res = execShell(pure.in)]
  /\ UNCHANGED <<now, ctxDone, cache, queue, dirty, processing, shuttingDown, processed,
                 nodeLabels, wk, events, calls, prev, seenReady, firstObs, ctl>>

NextExec == ExecShell

SpecExec == InitExec /\ [][NextExec]_vars

\* ---------------------------------------------------------- specifications
\* the controller, watching one pod, until it is told to stop: informer,
\* queue, workers, clock
Next ==
  \/ \E p \in PodsOf(Key1) : InformerEvent(Key1, p)
  \/ InformerResync(Key1)
  \/ InformerDelete(Key1)
  \/ Tick
  \/ \E w \in Workers : Get(w)
  \/ \E w \in Workers : Lookup(w)
  \/ \E w \in Workers : Has(w)
  \/ \E w \in Workers : JitterElapsed(w)
  \/ \E w \in Workers : Mark(w)
  \/ \E w \in Workers : PodTimeout(w)
  \/ \E w \in Workers : ExecFail(w)
  \/ \E w \in Workers : \E s \in SerialsInputs : ExecOk(w, s)
  \/ \E w \in Workers : \E o \in GetOutcomes : AttemptGet(w, o)
  \/ \E w \in Workers : \E o \in UpdateOutcomes : AttemptUpdate(w, o)
  \/ \E w \in Workers : Backoff(w)
  \/ \E w \in Workers : AfterEnsure(w)
  \/ \E w \in Workers : ProviderFail(w)
  \/ \E w \in Workers : \E id \in ProviderInputs : ProviderOk(w, id)
  \/ \E w \in Workers : ExportNoWrite(w)
  \/ \E w \in Workers : \E ok \in BOOLEAN : ExportWrite(w, ok)
  \/ \E w \in Workers : Done(w)

Spec == Init /\ [][Next]_vars

\* EnsureLabels called directly, one call after the other, on a node that
\* other clients of the API server write as well
InitEnsure ==
  /\ InitCommon
  /\ pure = NoPure
  /\ firstObs = Unobserved
  /\ nodeLabels \in NodeLabelInputs
  /\ wk = [w \in Workers |-> IF w = 1 THEN [IdleWorker EXCEPT !.pc = "caller"]
                                      ELSE IdleWorker]

NextEnsure ==
  \/ \E s \in SerialsInputs : CallEnsure(1, s)
  \/ \E o \in GetOutcomes : AttemptGet(1, o)
  \/ \E o \in UpdateOutcomes : AttemptUpdate(1, o)
  \/ Backoff(1)
  \/ ReturnEnsure(1)
  \/ \E l \in NodeLabelInputs : ExternalNodeUpdate(l)

SpecEnsure == InitEnsure /\ [][NextEnsure]_vars

\* the controller with every call succeeding and no clock, cancellation or
\* timeout; a runnable worker is eventually run and its calls return
NextLive ==
  \/ \E p \in PodsOf(Key1) : InformerEvent(Key1, p)
  \/ InformerResync(Key1)
  \/ InformerDelete(Key1)
  \/ \E w \in Workers : Get(w)
  \/ \E w \in Workers : Lookup(w)
  \/ \E w \in Workers : Has(w)
  \/ \E w \in Workers : JitterElapsed(w)
  \/ \E w \in Workers : Mark(w)
  \/ \E w \in Workers : \E s \in SerialsInputs : ExecOk(w, s)
  \/ \E w \in Workers : AttemptGet(w, "ok")
  \/ \E w \in Workers : AttemptUpdate(w, "ok")
  \/ \E w \in Workers : AfterEnsure(w)
  \/ \E w \in Workers : ProviderOk(w, P1)
  \/ \E w \in Workers : ExportNoWrite(w)
  \/ \E w \in Workers : ExportWrite(w, TRUE)
  \/ \E w \in Workers : Done(w)

WorkerStep(w) ==
  \/ Get(w) \/ Lookup(w) \/ Has(w) \/ JitterElapsed(w) \/ Mark(w)
  \/ \E s \in SerialsInputs : ExecOk(w, s)
  \/ AttemptGet(w, "ok") \/ AttemptUpdate(w, "ok") \/ AfterEnsure(w)
  \/ ProviderOk(w, P1) \/ ExportNoWrite(w) \/ ExportWrite(w, TRUE) \/ Done(w)

\* as Init, the first notification of every uid recorded
InitLive ==
  /\ InitCommon
  /\ pure = NoPure
  /\ firstObs = [u \in UIDs |-> "none"]
  /\ nodeLabels = L2
  /\ wk = [w \in Workers |-> IdleWorker]

SpecLive == InitLive /\ [][NextLive]_vars /\ \A w \in Workers : WF_vars(WorkerStep(w))

\* the controller, watching one pod, told to stop by a signal: the queue is
\* shut down with drain, the workers leave their loops, the HTTP server
\* shuts down; a started call returns and a runnable goroutine runs
NextCancel ==
  \/ \E p \in PodsOf(Key1) : InformerEvent(Key1, p)
  \/ Cancel
  \/ ShutDownWithDrain
  \/ DrainReturn
  \/ ServeShutdown
  \/ ServeFail
  \/ \E w \in Workers : Get(w)
  \/ \E w \in Workers : GetShutdown(w)
  \/ \E w \in Workers : Lookup(w)
  \/ \E w \in Workers : Has(w)
  \/ \E w \in Workers : JitterElapsed(w)
  \/ \E w \in Workers : JitterCancelled(w)
  \/ \E w \in Workers : Mark(w)
  \/ \E w \in Workers : PodTimeout(w)
  \/ \E w \in Workers : ExecFail(w)
  \/ \E w \in Workers : \E s \in {<<>>, S1} : ExecOk(w, s)
  \/ \E w \in Workers : \E o \in {"ok", "error"} : AttemptGet(w, o)
  \/ \E w \in Workers : \E o \in {"ok", "error"} : AttemptUpdate(w, o)
  \/ \E w \in Workers : Backoff(w)
  \/ \E w \in Workers : AfterEnsure(w)
  \/ \E w \in Workers : ProviderFail(w)
  \/ \E w \in Workers : ProviderOk(w, P1)
  \/ \E w \in Workers : \E ok \in BOOLEAN : ExportWrite(w, ok)
  \/ \E w \in Workers : Done(w)

\* the steps of worker w once it has a key or the queue has one for it
WorkerRuns(w) ==
  \/ Get(w) \/ GetShutdown(w) \/ Lookup(w) \/ Has(w)
  \/ JitterElapsed(w) \/ JitterCancelled(w) \/ Mark(w) \/ ExecFail(w)
  \/ \E s \in {<<>>, S1} : ExecOk(w, s)
  \/ \E o \in {"ok", "error"} : AttemptGet(w, o)
  \/ \E o \in {"ok", "error"} : AttemptUpdate(w, o)
  \/ Backoff(w) \/ AfterEnsure(w) \/ ProviderFail(w) \/ ProviderOk(w, P1)
  \/ \E ok \in BOOLEAN : ExportWrite(w, ok)
  \/ Done(w)

SpecCancel ==
  /\ Init
  /\ [][NextCancel]_vars
  /\ \A w \in Workers : WF_vars(WorkerRuns(w))
  /\ WF_vars(ShutDownWithDrain)
  /\ WF_vars(DrainReturn)
  /\ WF_vars(ServeShutdown)

\* the controller watching two pods whose exec fails, times out or finds no
\* GPU; a runnable worker is eventually run and its exec returns
NextPods ==
  \/ \E k \in {Key1, Key2} : \E p \in PodsOf(k) : InformerEvent(k, p)
  \/ \E w \in Workers : Get(w)
  \/ \E w \in Workers : Lookup(w)
  \/ \E w \in Workers : Has(w)
  \/ \E w \in Workers : JitterElapsed(w)
  \/ \E w \in Workers : Mark(w)
  \/ \E w \in Workers : PodTimeout(w)
  \/ \E w \in Workers : ExecFail(w)
  \/ \E w \in Workers : ExecOk(w, <<>>)
  \/ \E w \in Workers : Done(w)

PodsStep(w) ==
  \/ Get(w) \/ Lookup(w) \/ Has(w) \/ JitterElapsed(w) \/ Mark(w)
  \/ ExecFail(w) \/ ExecOk(w, <<>>) \/ Done(w)

SpecPods == Init /\ [][NextPods]_vars /\ \A w \in Workers : WF_vars(PodsStep(w))

\* a running pod with its one container ready
ReadyPod(key) ==
  [key |-> key, uid |-> UidOf(key), phase |-> PodRunning, containers |-> 1,
   statuses |-> <<TRUE>>]

\* more ready pods than workers: each is added once and resynced while the
\* workers take keys from the queue and run them to the end
NextQueue ==
  \/ \E k \in Keys : InformerEvent(k, ReadyPod(k))
  \/ \E k \in Keys : InformerResync(k)
  \/ \E w \in Workers : Get(w)
  \/ \E w \in Workers : Lookup(w)
  \/ \E w \in Workers : Has(w)
  \/ \E w \in Workers : JitterElapsed(w)
  \/ \E w \in Workers : Mark(w)
  \/ \E w \in Workers : ExecOk(w, <<>>)
  \/ \E w \in Workers : Done(w)

SpecQueue == Init /\ [][NextQueue]_vars

\* the characters of the strings given to sanitizeLabelValue: letters, a
\* label punctuation, a separator, white space and a slash
SanitizeChars == {"a", "n", "A", "N", "-", ".", " ", "/"}

\* every string of at most MaxLen of these characters; among them "", "N/A"
\* and "na"
SanitizeInputs == UNION {[1..m -> SanitizeChars] : m \in 0..MaxLen}

\* sanitizeLabelValue applied to one string, and again to its result
InitSanitize ==
  /\ InitCommon
  /\ firstObs = Unobserved
  /\ nodeLabels = L2
  /\ wk = [w \in Workers |-> IdleWorker]
  /\ \E s \in SanitizeInputs :
       pure = [pc |-> "input", in |-> s, out |-> <<>>, again |-> <<>>]

Sanitize ==
  /\ pure.pc = "input"
  /\ pure' = [pure EXCEPT !.pc = "sanitized", !.out = sanitizeLabelValue(pure.in)]
  /\ UNCHANGED <<now, ctxDone, cache, queue, dirty, processing, shuttingDown, processed,
                 nodeLabels, wk, events, calls, prev, seenReady, firstObs, ctl>>

SanitizeAgain ==
  /\ pure.pc = "sanitized"
  /\ pure' = [pure EXCEPT !.pc = "twice", !.again = sanitizeLabelValue(pure.out)]
  /\ UNCHANGED <<now, ctxDone, cache, queue, dirty, processing, shuttingDown, processed,
                 nodeLabels, wk, events, calls, prev, seenReady, firstObs, ctl>>

NextSanitize == Sanitize \/ SanitizeAgain

SpecSanitize == InitSanitize /\ [][NextSanitize]_vars

\* chassis serial numbers nvidia-smi reports: none, "N/A", two serials
ChassisInputs == {<<>>, <<"N", "/", "A">>, <<"C", "0">>, <<"C", "1">>}

\* the GPU serials of one group as GetSerialNumbers leaves them: distinct and
\* sorted; a GPU without a serial has the serial ""
GPUInputs ==
  { <<a>> : a \in {<<>>, <<"G", "1">>, <<"G", "2">>} }
    \cup { <<<<>>, <<"G", "1">>>>, <<<<>>, <<"G", "2">>>>, <<<<"G", "1">>, <<"G", "2">>>> }

GroupInputs == { [Chassis |-> c, GPU |-> g] : c \in ChassisInputs, g \in GPUInputs }

\* the lists of groups given to calculateGPULabels: at most MaxGroups
\* entries in any order, nil entries among them, no chassis in two groups
GroupListInputs ==
  { l \in UNION {[1..m -> GroupInputs \cup {NilSerials}] : m \in 0..MaxGroups} :
      \A a, b \in 1..Len(l) :
        (a # b /\ l[a] # NilSerials /\ l[b] # NilSerials) => l[a].Chassis # l[b].Chassis }

\* calculateGPULabels applied to one list of groups
InitLabels ==
  /\ InitCommon
  /\ firstObs = Unobserved
  /\ nodeLabels = L2
  /\ wk = [w \in Workers |-> IdleWorker]
  /\ \E l \in GroupListInputs :
       pure = [pc |-> "input", serials |-> l, labels |-> EmptyLabels]

Calculate ==
  /\ pure.pc = "input"
  /\ pure' = [pure EXCEPT !.pc = "calculated",
                          !.labels = calculateGPULabels(pure.serials)]
  /\ UNCHANGED <<now, ctxDone, cache, queue, dirty, processing, shuttingDown, processed,
                 nodeLabels, wk, events, calls, prev, seenReady, firstObs, ctl>>

NextLabels == Calculate

SpecLabels == InitLabels /\ [][NextLabels]_vars

\* the GPUs of a parsed nvidia-smi output: chassis serial none or one of two,
\* GPU serial none or one of two
DeviceInputs ==
  { [ChassisSerialNumber |-> c, Serial |-> g] :
      c \in {<<>>, <<"C", "0">>, <<"C", "1">>},
      g \in {<<>>, <<"G", "1">>, <<"G", "2">>} }

DeviceListInputs == UNION {[1..m -> DeviceInputs] : m \in 0..MaxDevices}

RECURSIVE SerialsOfChassis(_, _)
\* unitMap[chassis] of GetSerialNumbers: the serials of the GPUs of a
\* chassis, each once
SerialsOfChassis(d, chassis) ==
  IF d = <<>> THEN <<>>
  ELSE LET front == SerialsOfChassis(SubSeq(d, 1, Len(d) - 1), chassis)
           gpu == d[Len(d)]
       IN IF gpu.ChassisSerialNumber = chassis
             /\ \A i \in 1..Len(front) : front[i] # gpu.Serial
          THEN Append(front, gpu.Serial)
          ELSE front

\* the units of GetSerialNumbers: one per chassis serial, its GPU serials
\* sorted by sort.Strings
Units(d) ==
  { [Chassis |-> c, GPU |-> SortStrings(SerialsOfChassis(d, c))] :
      c \in {d[i].ChassisSerialNumber : i \in 1..Len(d)} }

\* the orders in which the iteration of a Go map can deliver the units
MapOrders(S) ==
  { l \in [1..Cardinality(S) -> S] : \A a, b \in 1..Cardinality(S) : a # b => l[a] # l[b] }

\* the pod whose container ran nvidia-smi
ExportPod == [Namespace |-> <<"ns">>, Name |-> <<"p1">>, NodeName |-> <<"n1">>]

\* time.Now().UTC(); the zero time.Time is before the start of the run
TimeNow == now + 1

ZeroTime == 0

\* SerialNumberReading.Validate without the check of the GPU serial
Validate_NoGPU(r) ==
  IF r.Cluster = <<>> THEN "cluster name is required"
  ELSE IF r.Node = <<>> THEN "node name is required"
  ELSE IF r.Machine = <<>> THEN "machine name is required"
  ELSE IF r.Source = <<>> THEN "source name is required"
  ELSE IF r.Time = ZeroTime THEN "time is required"
  ELSE "nil"

\* SerialNumberReading.Validate
Validate(r) ==
  IF r.Cluster = <<>> THEN "cluster name is required"
  ELSE IF r.Node = <<>> THEN "node name is required"
  ELSE IF r.Machine = <<>> THEN "machine name is required"
  ELSE IF r.Source = <<>> THEN "source name is required"
  ELSE IF r.GPU = <<>> THEN "GPU identifier is required"
  ELSE IF r.Time = ZeroTime THEN "time is required"
  ELSE "nil"

RECURSIVE ChassisReadings(_, _, _, _, _)
\* the inner loop of Export: one record per GPU serial of the group, kept
\* if it validates
ChassisReadings(cluster, pod, node, cn, gpus) ==
  IF gpus = <<>> THEN <<>>
  ELSE LET record == [Cluster |-> cluster, Node |-> pod.NodeName, Machine |-> node,
                      Source |-> pod.Namespace \o <<"/">> \o pod.Name,
                      Chassis |-> cn.Chassis, GPU |-> Head(gpus), Time |-> TimeNow]
           rest == ChassisReadings(cluster, pod, node, cn, Tail(gpus))
       IN IF Validate(record) # "nil" THEN rest ELSE <<record>> \o rest

RECURSIVE Readings_NoChassisSkip(_, _, _, _)
\* the outer loop of Export without the skip of an empty chassis
Readings_NoChassisSkip(cluster, pod, node, serials) ==
  IF serials = <<>> THEN <<>>
  ELSE LET cn == Head(serials)
           rest == Readings_NoChassisSkip(cluster, pod, node, Tail(serials))
       IN IF cn = NilSerials THEN rest
          ELSE ChassisReadings(cluster, pod, node, cn, cn.GPU) \o rest

RECURSIVE Readings(_, _, _, _)
\* the outer loop of Export: a group that is nil or has an empty chassis is
\* skipped
Readings(cluster, pod, node, serials) ==
  IF serials = <<>> THEN <<>>
  ELSE LET cn == Head(serials)
           rest == Readings(cluster, pod, node, Tail(serials))
       IN IF cn = NilSerials \/ cn.Chassis = <<>> THEN rest
          ELSE ChassisReadings(cluster, pod, node, cn, cn.GPU) \o rest

NoWrite(err) == [err |-> err, wrote |-> FALSE, records |-> <<>>]

\* Exporter.Export with an initialized backend whose Write succeeds or
\* fails: its error and the records it hands to backend.Write
Export(cluster, pod, node, serials, ok) ==
  IF Len(serials) = 0 THEN NoWrite("nil")
  ELSE IF Blank(cluster) THEN NoWrite("cluster name is required")
  ELSE IF Blank(node) THEN NoWrite("node name required")
  ELSE LET records == Readings(cluster, pod, node, serials)
       IN IF Len(records) = 0 THEN NoWrite("nil")
          ELSE [err |-> IF ok THEN "nil" ELSE "exporter backend failed",
                wrote |-> TRUE, records |-> records]

\* a parsed nvidia-smi output and the node identifier of the provider ID,
\* which may be empty
InitExport ==
  /\ InitCommon
  /\ firstObs = Unobserved
  /\ nodeLabels = L2
  /\ wk = [w \in Workers |-> IdleWorker]
  /\ \E d \in DeviceListInputs : \E node \in {<<>>, <<"i-abc">>} :
       pure = [pc |-> "parsed", devices |-> d, node |-> node, serials |-> <<>>,
               ok |-> TRUE, res |-> NoWrite("nil")]

\* GetSerialNumbers groups the GPUs by chassis
GroupDevices ==
  /\ pure.pc = "parsed"
  /\ \E units \in MapOrders(Units(pure.devices)) :
       pure' = [pure EXCEPT !.pc = "grouped", !.serials = units]
  /\ UNCHANGED <<now, ctxDone, cache, queue, dirty, processing, shuttingDown, processed,
                 nodeLabels, wk, events, calls, prev, seenReady, firstObs, ctl>>

\* processPod calls Export with cmd.Cluster, which Validate found not blank
ExportSerials(ok) ==
  /\ pure.pc = "grouped"
  /\ pure' = [pure EXCEPT !.pc = "exported", !.ok = ok,
                          !.res = Export(<<"c1">>, ExportPod, pure.node, pure.serials, ok)]
  /\ UNCHANGED <<now, ctxDone, cache, queue, dirty, processing, shuttingDown, processed,
                 nodeLabels, wk, events, calls, prev, seenReady, firstObs, ctl>>

NextExport ==
  \/ GroupDevices
  \/ \E ok \in BOOLEAN : ExportSerials(ok)

SpecExport == InitExport /\ [][NextExport]_vars

\* ------------------------------------------------- the arguments of Export
\* a nil *corev1.Pod
NilPod == [Namespace |-> <<>>, Name |-> <<>>, NodeName |-> <<"nil">>]

\* an Export that checks its other arguments before the list of groups
ExportCall_ArgsFirst(initialized, cluster, pod, node, serials, ok) ==
  IF ~initialized THEN NoWrite("exporter not initialized")
  ELSE IF Blank(cluster) THEN NoWrite("cluster name is required")
  ELSE IF pod = NilPod THEN NoWrite("pod is nil")
  ELSE Export(cluster, pod, node, serials, ok)

\* Exporter.Export with a receiver or backend that may be nil and a pod that
\* may be nil
ExportCall(initialized, cluster, pod, node, serials, ok) ==
  IF Len(serials) = 0 THEN NoWrite("nil")
  ELSE IF ~initialized THEN NoWrite("exporter not initialized")
  ELSE IF Blank(cluster) THEN NoWrite("cluster name is required")
  ELSE IF pod = NilPod THEN NoWrite("pod is nil")
  ELSE Export(cluster, pod, node, serials, ok)

\* the arguments of one call of Export
ExportArgs ==
  [initialized : BOOLEAN, cluster : {<<>>, <<" ">>, <<"c1">>}, pod : {NilPod, ExportPod},
   node : {<<>>, <<"i-abc">>}, serials : SerialsInputs \cup {<<NilSerials>>, S1 \o S2}]

InitCall ==
  /\ InitCommon
  /\ firstObs = Unobserved
  /\ nodeLabels = L2
  /\ wk = [w \in Workers |-> IdleWorker]
  /\ \E a \in ExportArgs : pure = [pc |-> "args", a |-> a, ok |-> TRUE, res |-> NoWrite("nil")]

CallExport(ok) ==
  /\ pure.pc = "args"
  /\ pure' = [pure EXCEPT !.pc = "exported", !.ok = ok,
                !.res = ExportCall(pure.a.initialized, pure.a.cluster, pure.a.pod,
                                   pure.a.node, pure.a.serials, ok)]
  /\ UNCHANGED <<now, ctxDone, cache, queue, dirty, processing, shuttingDown, processed,
                 nodeLabels, wk, events, calls, prev, seenReady, firstObs, ctl>>

NextCall == \E ok \in BOOLEAN : CallExport(ok)

SpecCall == InitCall /\ [][NextCall]_vars

\* the reorderings of a sequence
Reorderings(q) ==
  { [i \in 1..Len(q) |-> q[f[i]]] :
      f \in {g \in [1..Len(q) -> 1..Len(q)] : \A a, b \in 1..Len(q) : a # b => g[a] # g[b]} }

\* a group with its GPU serials in another order
GroupReorderings(cn) ==
  IF cn = NilSerials THEN {cn}
  ELSE {[Chassis |-> cn.Chassis, GPU |-> g] : g \in Reorderings(cn.GPU)}

\* the lists that hold the groups of l in another order, the GPU serials of
\* each group in another order
Reordered(l) ==
  UNION { { m \in [1..Len(o) -> UNION {GroupReorderings(o[k]) : k \in 1..Len(o)}] :
              \A k \in 1..Len(o) : m[k] \in GroupReorderings(o[k]) } :
            o \in Reorderings(l) }

\* calculateGPULabels applied to a list of groups and to a reordering of it
InitPermuted ==
  /\ InitCommon
  /\ firstObs = Unobserved
  /\ nodeLabels = L2
  /\ wk = [w \in Workers |-> IdleWorker]
  /\ \E l \in GroupListInputs : \E m \in Reordered(l) :
       pure = [pc |-> "input", serials |-> l, labels |-> EmptyLabels,
               reordered |-> m, relabels |-> EmptyLabels]

CalculateReordered ==
  /\ pure.pc = "calculated"
  /\ pure' = [pure EXCEPT !.pc = "both",
                          !.relabels = calculateGPULabels(pure.reordered)]
  /\ UNCHANGED <<now, ctxDone, cache, queue, dirty, processing, shuttingDown, processed,
                 nodeLabels, wk, events, calls, prev, seenReady, firstObs, ctl>>

NextPermuted == Calculate \/ CalculateReordered

SpecPermuted == InitPermuted /\ [][NextPermuted]_vars

\* the exporter types a configuration names: none, blank, the four known
\* ones, an unknown one
ExporterTypes ==
  {<<>>, <<" ">>, <<"stdout">>, <<"s3">>, <<"postgres">>, <<"http">>, <<"unknown">>}

\* the configurations given to GetExporter; the timeout in seconds
ExporterConfigInputs ==
  { [Type |-> t, BatchSize |-> b, RetryCount |-> r, Timeout |-> d] :
      t \in ExporterTypes, b \in {-1, 0, 5}, r \in {-1, 0, 3}, d \in {-1, 0, 60} }

\* GetExporter returns a nil *Exporter with its error
NilExporter ==
  [Type |-> <<>>, Config |-> [Type |-> <<>>, BatchSize |-> 0, RetryCount |-> 0, Timeout |-> 0],
   backend |-> "nil"]

\* the defaults GetExporter applies to the configuration
WithDefaults(config) ==
  [Type |-> IF Blank(config.Type) THEN <<"stdout">> ELSE config.Type,
   BatchSize |-> IF config.BatchSize <= 0 THEN defaultBatchSize ELSE config.BatchSize,
   RetryCount |-> IF config.RetryCount <= 0 THEN defaultRetryCount ELSE config.RetryCount,
   Timeout |-> IF config.Timeout <= 0 THEN defaultTimeout ELSE config.Timeout]

\* a GetExporter that returns the exporter without its health check
GetExporter_NoHealth(config, newOk, healthOk) ==
  LET c == WithDefaults(config)
  IN IF c.Type \notin {<<"stdout">>, <<"s3">>, <<"postgres">>, <<"http">>}
     THEN [err |-> "unknown exporter type", exporter |-> NilExporter, health |-> "none"]
     ELSE IF c.Type # <<"stdout">> /\ ~newOk
     THEN [err |-> "failed to initialize", exporter |-> NilExporter, health |-> "none"]
     ELSE [err |-> "nil", exporter |-> [Type |-> c.Type, Config |-> c, backend |-> c.Type],
           health |-> "none"]

\* GetExporter(ctx, log, config): newOk is whether the backend's New
\* succeeds (stdout.New always does), healthOk whether its Health does
GetExporter(config, newOk, healthOk) ==
  LET c == WithDefaults(config)
  IN IF c.Type \notin {<<"stdout">>, <<"s3">>, <<"postgres">>, <<"http">>}
     THEN [err |-> "unknown exporter type", exporter |-> NilExporter, health |-> "none"]
     ELSE IF c.Type # <<"stdout">> /\ ~newOk
     THEN [err |-> "failed to initialize", exporter |-> NilExporter, health |-> "none"]
     ELSE IF ~healthOk
     THEN [err |-> "exporter health check failed", exporter |-> NilExporter,
           health |-> "failed"]
     ELSE [err |-> "nil", exporter |-> [Type |-> c.Type, Config |-> c, backend |-> c.Type],
           health |-> "passed"]

\* GetExporter applied to one configuration
InitOpen ==
  /\ InitCommon
  /\ firstObs = Unobserved
  /\ nodeLabels = L2
  /\ wk = [w \in Workers |-> IdleWorker]
  /\ \E c \in ExporterConfigInputs :
       pure = [pc |-> "config", config |-> c, newOk |-> TRUE, healthOk |-> TRUE,
               res |-> [err |-> "nil", exporter |-> NilExporter, health |-> "none"]]

Open(newOk, healthOk) ==
  /\ pure.pc = "config"
  /\ pure' = [pure EXCEPT !.pc = "opened", !.newOk = newOk, !.healthOk = healthOk,
                          !.res = GetExporter(pure.config, newOk, healthOk)]
  /\ UNCHANGED <<now, ctxDone, cache, queue, dirty, processing, shuttingDown, processed,
                 nodeLabels, wk, events, calls, prev, seenReady, firstObs, ctl>>

NextOpen == \E newOk, healthOk \in BOOLEAN : Open(newOk, healthOk)

SpecOpen == InitOpen /\ [][NextOpen]_vars

RECURSIVE JoinPath(_)
\* the segments of a path, a "/" before each
JoinPath(segs) ==
  IF segs = <<>> THEN <<>> ELSE <<"/">> \o Head(segs) \o JoinPath(Tail(segs))

\* provider IDs of the form scheme://authority/path: a scheme in lower or
\* upper case, an authority or none, a path of at most MaxSegments segments
\* any of which may be empty
WellFormedIDs ==
  { [id |-> <<sch>> \o <<":", "/", "/">> \o auth \o JoinPath(segs), scheme |-> sch] :
      sch \in {"aws", "AWS"},
      auth \in {<<>>, <<"docker">>},
      segs \in UNION {[1..m -> {<<>>, <<"us-east-1a">>, <<"i-abc">>}] : m \in 1..MaxSegments} }

\* provider IDs that are empty or have no ":"
MalformedIDs ==
  { [id |-> i, scheme |-> "none"] :
      i \in {<<>>, <<"invalid-format">>, <<"aws", "/", "i-abc">>} }

\* parseNodeInfo applied to one provider ID
InitParse ==
  /\ InitCommon
  /\ firstObs = Unobserved
  /\ nodeLabels = L2
  /\ wk = [w \in Workers |-> IdleWorker]
  /\ \E i \in WellFormedIDs \cup MalformedIDs :
       pure = [pc |-> "providerID", in |-> i.id, scheme |-> i.scheme,
               info |-> [err |-> FALSE, Provider |-> <<>>, Identifier |-> <<>>, Raw |-> <<>>]]

Parse ==
  /\ pure.pc = "providerID"
  /\ pure' = [pure EXCEPT !.pc = "parsed", !.info = parseNodeInfo(pure.in)]
  /\ UNCHANGED <<now, ctxDone, cache, queue, dirty, processing, shuttingDown, processed,
                 nodeLabels, wk, events, calls, prev, seenReady, firstObs, ctl>>

NextParse == Parse

SpecParse == InitParse /\ [][NextParse]_vars

\* the controller watching one pod that is added, updated, resynced and
\* deleted while the workers run its pipeline to a failure or to the sink;
\* a runnable worker is eventually run
NextForget ==
  \/ \E p \in PodsOf(Key1) : InformerEvent(Key1, p)
  \/ InformerResync(Key1)
  \/ InformerDelete(Key1)
  \/ \E w \in Workers : Get(w)
  \/ \E w \in Workers : Lookup(w)
  \/ \E w \in Workers : Has(w)
  \/ \E w \in Workers : JitterElapsed(w)
  \/ \E w \in Workers : Mark(w)
  \/ \E w \in Workers : ExecFail(w)
  \/ \E w \in Workers : \E s \in SerialsInputs : ExecOk(w, s)
  \/ \E w \in Workers : \E o \in {"ok", "error"} : AttemptGet(w, o)
  \/ \E w \in Workers : \E o \in {"ok", "error"} : AttemptUpdate(w, o)
  \/ \E w \in Workers : Backoff(w)
  \/ \E w \in Workers : AfterEnsure(w)
  \/ \E w \in Workers : ProviderFail(w)
  \/ \E w \in Workers : \E id \in ProviderInputs : ProviderOk(w, id)
  \/ \E w \in Workers : ExportNoWrite(w)
  \/ \E w \in Workers : \E ok \in BOOLEAN : ExportWrite(w, ok)
  \/ \E w \in Workers : Done(w)

ForgetStep(w) ==
  \/ Get(w) \/ Lookup(w) \/ Has(w) \/ JitterElapsed(w) \/ Mark(w) \/ ExecFail(w)
  \/ \E s \in SerialsInputs : ExecOk(w, s)
  \/ \E o \in {"ok", "error"} : AttemptGet(w, o)
  \/ \E o \in {"ok", "error"} : AttemptUpdate(w, o)
  \/ Backoff(w) \/ AfterEnsure(w) \/ ProviderFail(w)
  \/ \E id \in ProviderInputs : ProviderOk(w, id)
  \/ ExportNoWrite(w)
  \/ \E ok \in BOOLEAN : ExportWrite(w, ok)
  \/ Done(w)

SpecForget == Init /\ [][NextForget]_vars /\ \A w \in Workers : WF_vars(ForgetStep(w))

\* podReady applied to one pod object
ReadyInputs ==
  { [key |-> Key1, uid |-> "U1", phase |-> ph, containers |-> n, statuses |-> st] :
      ph \in {"Pending", PodRunning, "Succeeded", "Failed", "Unknown"},
      n \in 0..MaxContainers,
      st \in UNION {[1..m -> BOOLEAN] : m \in 0..MaxStatuses} }

InitReady ==
  /\ InitCommon
  /\ pure = NoPure
  /\ firstObs = Unobserved
  /\ nodeLabels = L2
  /\ \E p \in ReadyInputs :
       wk = [w \in Workers |-> IF w = 1 THEN [IdleWorker EXCEPT !.pc = "check", !.pod = p]
                                        ELSE IdleWorker]

CheckReady(w) ==
  /\ wk[w].pc = "check"
  /\ wk' = [wk EXCEPT ![w].pc = "checked", ![w].ready = podReady(wk[w].pod)]
  /\ UNCHANGED <<now, ctxDone, cache, queue, dirty, processing, shuttingDown,
                 processed, nodeLabels, events, calls, prev, seenReady, firstObs, ctl, pure>>

NextReady == CheckReady(1)

SpecReady == InitReady /\ [][NextReady]_vars

\* ------------------------------------------------------------------ claims
Marks(u) == {i \in DOMAIN events[u] : events[u][i].kind = "mark"}

Execs(u) == {i \in DOMAIN events[u] : events[u][i].kind = "exec"}

Writes(u) == {i \in DOMAIN events[u] : events[u][i].kind = "write"}

\* C1: for every uid and every time it is marked in the dedup set, the sink
\* receives the records of that uid at most once after the mark and within
\* cacheTTL (30 minutes) of it, whatever the notifications and the workers do
C1_DedupWithinTTL ==
  \A u \in UIDs : \A i \in Marks(u) :
    Cardinality({j \in Writes(u) : j > i /\ events[u][j].at <= events[u][i].at + cacheTTL}) <= 1

\* C1 witness: the sink has the records of U1 and a worker that popped the
\* pod's key again found it ready, found its uid in the dedup set and
\* finished without an exec
C1_Witness ==
  /\ Writes("U1") # {}
  /\ \E w \in Workers :
       /\ wk[w].pc = "finished"
       /\ wk[w].pod.uid = "U1"
       /\ wk[w].ready
       /\ wk[w].execs = 0
       /\ wk[w].err = "nil"

\* C2 as claimed: for one uid the pipeline (mark, exec, ..., sink write) runs
\* at most once in the life of the process, however much time passes
C2_OncePerLifetime == \A u \in UIDs : Cardinality(Marks(u)) <= 1 /\ Cardinality(Execs(u)) <= 1

\* C2 amended: for one uid the pipeline runs at most once per dedup window:
\* two runs of it are marked more than cacheTTL (30 minutes) apart, and no
\* exec happens without a mark of its own
C2_OncePerTTL ==
  \A u \in UIDs :
    /\ \A i, j \in Marks(u) : i < j => events[u][j].at - events[u][i].at > cacheTTL
    /\ \A j \in Execs(u) : j > 1 /\ events[u][j - 1].kind = "mark"

\* C2 witness: the pipeline ran twice for U1, the second time after the
\* entry of the first had expired
C2_Witness == Cardinality(Marks("U1")) = 2 /\ Cardinality(Execs("U1")) = 2

\* the readiness predicate: Running, a status for at least every declared
\* container, every status ready
C4_Ready(p) ==
  /\ p.phase = "Running"
  /\ Len(p.statuses) >= p.containers
  /\ \A i \in DOMAIN p.statuses : p.statuses[i] = TRUE

InPipeline(w) ==
  \/ wk[w].pc \in {"jitter", "mark", "exec", "attempt", "update", "backoff",
                   "ensured", "provider", "export"}
  \/ wk[w].execs > 0 \/ wk[w].e.gets > 0 \/ wk[w].e.updates > 0
  \/ wk[w].provs > 0 \/ wk[w].writes > 0
  \/ wk[w].nOk > 0 \/ wk[w].nErr > 0

\* C3: a worker execs (and calls the node API and the sink) only in an
\* attempt whose pod, as read from the informer cache in that attempt, passed
\* the readiness predicate; and a notification of a pod that fails it
\* enqueues nothing
C3_ReadinessGate ==
  /\ [](\A w \in Workers : InPipeline(w) => (wk[w].pod # NoPod /\ C4_Ready(wk[w].pod)))
  /\ [][\A p \in PodsOf(Key1) :
          (InformerEvent(Key1, p) /\ ~C4_Ready(p)) => UNCHANGED <<queue, dirty, wk>>]_vars

\* C3 witness: a worker has exec'd a pod it read ready from the cache, while
\* the cache already holds a later, not ready version of that pod
C3_Witness ==
  \E w \in Workers :
    /\ wk[w].execs = 1
    /\ C4_Ready(wk[w].pod)
    /\ cache[wk[w].key] # NoPod
    /\ ~C4_Ready(cache[wk[w].key])

\* C4 as claimed: podReady is true iff the phase is Running, there are
\* exactly as many container statuses as declared containers, and every
\* status is ready
C4_ReadyIffEqual ==
  \A w \in Workers : wk[w].pc = "checked" =>
    (wk[w].ready <=> (/\ wk[w].pod.phase = "Running"
                      /\ Len(wk[w].pod.statuses) = wk[w].pod.containers
                      /\ \A i \in DOMAIN wk[w].pod.statuses : wk[w].pod.statuses[i]))

\* C4 amended: podReady is true iff the phase is Running, there are at least
\* as many container statuses as declared containers, and every status is
\* ready
C4_ReadyIffAtLeast ==
  \A w \in Workers : wk[w].pc = "checked" => (wk[w].ready <=> C4_Ready(wk[w].pod))

\* C4 witness: a Running pod with more statuses than declared containers,
\* all ready, was found ready
C4_Witness ==
  \E w \in Workers :
    /\ wk[w].pc = "checked"
    /\ wk[w].ready
    /\ Len(wk[w].pod.statuses) > wk[w].pod.containers
    /\ wk[w].pod.containers > 0

KeysOf(u) == {k \in Keys : UidOf(k) = u}

Held(k) ==
  \/ k \in dirty
  \/ k \in processing
  \/ \E i \in DOMAIN queue : queue[i] = k
  \/ \E w \in Workers : wk[w].key = k

\* C5: a pod first observed not ready is neither enqueued, nor exec'd, nor
\* marked in the dedup set for as long as no notification has shown it ready;
\* once an update shows it ready (and it stays so), exec runs for it, and it
\* runs once only
C5_PreReadySkip ==
  /\ [](\A u \in UIDs : (firstObs[u] = "notready" /\ u \notin seenReady) =>
          /\ \A k \in KeysOf(u) : ~Held(k)
          /\ events[u] = <<>>
          /\ u \notin DOMAIN processed)
  /\ [](\A u \in UIDs : firstObs[u] = "notready" => Cardinality(Execs(u)) <= 1)
  /\ (<>[](/\ firstObs["U1"] = "notready"
           /\ cache[Key1] # NoPod
           /\ C4_Ready(cache[Key1]))
        => <>(Cardinality(Execs("U1")) = 1))

\* C5 witness: the first notification of U1 showed it not ready, a later one
\* ready, and exec has run once for it
C5_Witness ==
  /\ firstObs["U1"] = "notready"
  /\ "U1" \in seenReady
  /\ Cardinality(Execs("U1")) = 1

\* the labels of a map whose key is in the tool's namespace "gpuid.github.com/"
InNS(k) == HasPrefix(k, labelNS \o <<"/">>)

NSLabels(m) == [k \in {x \in DOMAIN m : InNS(x)} |-> m[k]]

OutsideNS(m) == [k \in {x \in DOMAIN m : ~InNS(x)} |-> m[k]]

CleanCall(e) == e.err = "nil" /\ e.getFails = 0 /\ e.updateFails = 0

\* the second of two successive clean calls with the same desired labels has
\* returned, the node untouched by others in between, the first call having
\* found the node's namespace labels different from the desired ones
TwiceInSuccession ==
  /\ wk[1].pc = "ensured"
  /\ calls > 0
  /\ prev.made /\ prev.clean /\ ~prev.touched
  /\ CleanCall(wk[1].e)
  /\ wk[1].e.desired = prev.desired
  /\ NSLabels(prev.node) # prev.desired

\* C6: of two successive ensure calls with the same desired labels, on a node
\* whose labels differed from them, with no node change in between and no API
\* failure, the first issues one update and the second reads the node once
\* and writes nothing: one update call in total
C6_LabelIdempotence ==
  TwiceInSuccession =>
    /\ prev.updates + wk[1].e.updates = 1
    /\ wk[1].e.updates = 0
    /\ wk[1].e.gets = 1
    /\ ~wk[1].e.wrote

\* C6 witness: two such calls have been made
C6_Witness == TwiceInSuccession /\ calls = 2

\* C7: the step in which an ensure call writes the node successfully leaves
\* the node with the labels the call read, minus every key in the tool's
\* namespace, plus the desired labels
C7_UpdatedLabels ==
  [][\A w \in Workers :
       (wk[w].pc = "update" /\ wk'[w].pc = "ensured" /\ wk'[w].e.wrote) =>
          nodeLabels' = applyLabels(OutsideNS(wk[w].e.node), wk[w].e.desired)]_vars

\* C8: an ensure call whose reads all succeed and whose first k update
\* attempts fail retryably, k < 5, re-reads the node before each retry, makes
\* k+1 update attempts and returns success, the node carrying the desired
\* labels; no call gives up before its fifth failed attempt
C8_RetryAfterConflict ==
  /\ [](\A w \in Workers :
          /\ wk[w].pc = "update" =>
               wk[w].e.gets - wk[w].e.getFails = wk[w].e.updates + 1
          /\ (wk[w].pc = "ensured" /\ wk[w].e.err = "timeout") =>
               wk[w].e.getFails + wk[w].e.updateFails = maxRetries
          /\ (wk[w].pc = "ensured" /\ wk[w].e.wrote /\ wk[w].e.getFails = 0) =>
               /\ wk[w].e.updateFails < maxRetries
               /\ wk[w].e.updates = wk[w].e.updateFails + 1
               /\ wk[w].e.gets = wk[w].e.updateFails + 1
               /\ wk[w].e.err = "nil")
  /\ [][\A w \in Workers :
          (wk[w].pc = "update" /\ wk'[w].pc = "ensured" /\ wk'[w].e.wrote) =>
             \A k \in DOMAIN wk[w].e.desired :
                k \in DOMAIN nodeLabels' /\ nodeLabels'[k] = wk[w].e.desired[k]]_vars

\* C8 witness: a call returned success after one failed and one successful
\* update attempt, each after a read of its own
C8_Witness ==
  /\ wk[1].pc = "ensured"
  /\ wk[1].e.wrote
  /\ wk[1].e.err = "nil"
  /\ wk[1].e.getFails = 0
  /\ wk[1].e.updateFails = 1
  /\ wk[1].e.updates = 2
  /\ wk[1].e.gets = 2

\* C9: one ensure call issues at most maxRetries (5) node reads and at most 5
\* node updates, and after five attempts that failed retryably it has
\* returned an error
C9_AtMostFiveAttempts ==
  \A w \in Workers :
    /\ wk[w].e.gets <= maxRetries
    /\ wk[w].e.updates <= maxRetries
    /\ (/\ wk[w].e.getFails + wk[w].e.updateFails >= maxRetries
        /\ wk[w].e.err \notin {"forbidden", "invalid"}) =>
          (wk[w].pc = "ensured" /\ wk[w].e.err = "timeout")

\* C9 witness: a call returned the timeout error after five reads, updates
\* among its failed attempts
C9_Witness ==
  /\ wk[1].pc = "ensured"
  /\ wk[1].e.err = "timeout"
  /\ wk[1].e.gets = maxRetries
  /\ wk[1].e.updateFails > 0

Permanent == {"forbidden", "invalid"}

\* C10: a node read or update that fails with Forbidden or Invalid ends the
\* ensure call in that step with that error; the worker then counts one
\* failure for the pod and neither reads the provider nor writes to the sink
C10_NoRetryOnPermanent ==
  /\ [][\A w \in Workers : \A o \in Permanent :
          (AttemptGet(w, o) \/ AttemptUpdate(w, o)) =>
             (wk'[w].pc = "ensured" /\ wk'[w].e.err = o)]_vars
  /\ [](\A w \in Workers :
          /\ wk[w].e.err \in Permanent => wk[w].pc = "ensured"
          /\ wk[w].err \in Permanent =>
               /\ wk[w].pc = "finished"
               /\ wk[w].nErr = 1
               /\ wk[w].nOk = 0
               /\ wk[w].provs = 0
               /\ wk[w].writes = 0)

\* C10 witness: a worker finished a pod with the Forbidden error of its
\* ensure call, one failure counted and nothing written to the sink for it
C10_Witness ==
  \E w \in Workers :
    /\ wk[w].pc = "finished"
    /\ wk[w].err = "forbidden"
    /\ wk[w].nErr = 1
    /\ Writes(wk[w].pod.uid) = {}

\* C11: in no execution of the per-pod pipeline are both the success
\* counter and the failure counter incremented
C11_SuccessXorFailure ==
  \A w \in Workers : ~(wk[w].nOk > 0 /\ wk[w].nErr > 0)

\* C11 witness: an execution that counted a failure for the empty provider
\* identifier went on to Export and ended without counting a success
C11_Witness ==
  \E w \in Workers :
    /\ wk[w].pc = "finished"
    /\ wk[w].provs = 1
    /\ wk[w].identifier = <<>>
    /\ wk[w].nErr > 0
    /\ wk[w].nOk = 0

\* C12 as claimed: every processing attempt that ends in an error, a
\* cancellation included, has incremented the failure counter, and the
\* worker that ends an attempt goes on with its loop
C12_EveryErrorCounted ==
  \A w \in Workers :
    /\ (wk[w].pc = "finished" /\ wk[w].err # "nil") => wk[w].nErr >= 1
    /\ wk[w].err # "nil" => wk[w].pc = "finished"

\* C12 amended: every processing attempt that ends in an error has
\* incremented the failure counter, except the attempt cancelled in its
\* jitter wait, which returns the context's error before the uid is marked
\* and before any call, uncounted; the worker that ends an attempt with an
\* error releases the key and waits for the next one
C12_ErrorCountedButJitter ==
  /\ [](\A w \in Workers :
          /\ (wk[w].pc = "finished" /\ wk[w].err # "nil") =>
               \/ wk[w].nErr >= 1
               \/ /\ wk[w].err = "ctx"
                  /\ wk[w].execs = 0 /\ wk[w].provs = 0 /\ wk[w].writes = 0
          /\ wk[w].err # "nil" => wk[w].pc = "finished")
  /\ [][\A w \in Workers :
          (wk[w].pc = "finished" /\ wk[w].err # "nil" /\ wk'[w] # wk[w]) =>
             (wk'[w] = IdleWorker /\ wk[w].key \notin processing')]_vars
  /\ \A w \in Workers : (wk[w].err # "nil") ~> (wk[w].pc = "idle")

\* C12 witness: after the cancellation of the root context an attempt ended
\* with the error of its exec and counted it
C12_Witness ==
  \E w \in Workers :
    /\ ctxDone
    /\ wk[w].pc = "finished"
    /\ wk[w].err = "exec"
    /\ wk[w].nErr = 1

InQueue(k) == \E i \in DOMAIN queue : queue[i] = k

\* the dedup entry of uid u that a Has at time t would find in m
EntryAt(m, t, u) == IF u \in DOMAIN Swept(m, t) THEN m[u] ELSE -1

PodKeys == {Key1, Key2}

\* C15: whatever happens to the pipeline of another pod (it fails, it runs
\* until its timeout), a pod whose key is in the queue is eventually taken by
\* a worker and processed to the end, and marked and exec'd if it is still
\* ready and was not processed before; and no step of the worker that holds
\* pod A changes the dedup entry, the history or the worker of a pod B
C15_FailureIsolation ==
  /\ \A b \in PodKeys :
       InQueue(b) ~> (\E w \in Workers : wk[w].key = b /\ wk[w].pc = "finished")
  /\ \A b \in PodKeys :
       (InQueue(b) /\ C4_Ready(cache[b]) /\ Marks(UidOf(b)) = {})
          ~> (Execs(UidOf(b)) # {} \/ ~C4_Ready(cache[b]))
  /\ [][\A w \in Workers :
          (wk[w].key # NoKey /\ wk'[w] # wk[w]) =>
             /\ \A u \in UIDs \ {UidOf(wk[w].key)} :
                  /\ EntryAt(processed', now', u) = EntryAt(processed, now, u)
                  /\ events'[u] = events[u]
             /\ \A x \in Workers \ {w} : wk'[x] = wk[x]]_vars

\* C15 witness: the exec of pod A timed out and failed in one worker, and
\* pod B, enqueued meanwhile, was marked and exec'd in another
C15_Witness ==
  \E w, x \in Workers :
    /\ wk[w].key = Key1 /\ wk[w].pc = "finished"
    /\ wk[w].err = "exec" /\ wk[w].expired
    /\ wk[x].key = Key2 /\ wk[x].execs = 1
    /\ Execs("U2") # {}

\* the workers that hold a dequeued key not yet marked done
InFlight == {w \in Workers : wk[w].key # NoKey}

\* C13: the pods in flight (dequeued, not yet marked done) are never more than
\* the workers; they are the keys the queue has in processing, each held by
\* one worker, and no key is held by two workers at once
C13_BoundedConcurrency ==
  /\ Cardinality(processing) <= NumWorkers
  /\ processing = {wk[w].key : w \in InFlight}
  /\ \A w, x \in InFlight : wk[w].key = wk[x].key => w = x
  /\ \A k \in processing : ~InQueue(k)

\* C13 witness: every worker holds a key, and a key that was added again
\* while a worker holds it waits for that worker's Done
C13_Witness ==
  /\ Cardinality(processing) = NumWorkers
  /\ InFlight = Workers
  /\ dirty \cap processing # {}

\* C14: once the root context is cancelled the controller shuts the queue
\* down, and from then on the queue accepts no key; the drain returns only
\* when no dequeued key is left that was not marked done; and eventually every
\* worker has left its loop, Serve has returned and runController has
\* returned nil
C14_CancellationAndDrain ==
  /\ ctxDone ~> shuttingDown
  /\ [][shuttingDown => (shuttingDown' /\ dirty' \subseteq dirty)]_vars
  /\ [][(ctl.pc = "draining" /\ ctl'.pc = "returned") =>
          (processing = {} /\ InFlight = {})]_vars
  /\ ctxDone ~> (/\ \A w \in Workers : wk[w].pc = "stopped"
                 /\ ctl.server = "returned"
                 /\ ctl.pc = "returned" /\ ctl.err = "nil")

\* C14 witness: after a cancellation that found a pod marked, the queue is
\* empty, the workers have left their loops, Serve and runController have
\* returned
C14_Witness ==
  /\ ctxDone /\ shuttingDown
  /\ Marks("U1") # {}
  /\ queue = <<>> /\ processing = {}
  /\ \A w \in Workers : wk[w].pc = "stopped"
  /\ ctl.server = "returned"
  /\ ctl.pc = "returned" /\ ctl.err = "nil"

\* the label-value grammar ^[A-Za-z0-9]([A-Za-z0-9._-]*[A-Za-z0-9])?$ over
\* the characters of the inputs
Alphanumeric(c) == c \in {"a", "n", "A", "N"}

MatchesGrammar(s) ==
  /\ Len(s) >= 1
  /\ Alphanumeric(s[1]) /\ Alphanumeric(s[Len(s)])
  /\ \A i \in 1..Len(s) : Alphanumeric(s[i]) \/ s[i] \in {".", "_", "-"}

C20_Idempotent ==
  pure.pc = "twice" => pure.again = pure.out

\* C20 witness: the sentinel was sanitized twice
C20_Witness ==
  /\ pure.pc = "twice"
  /\ pure.in = <<"n", "a">>
  /\ pure.again = <<"n", "a">>

\* the positions of the groups of l that are not nil
NonNull(l) == {k \in 1..Len(l) : l[k] # NilSerials}

\* the index of group k of l in the ascending order of the chassis serials
ChassisIndex(l, k) ==
  Cardinality({m \in NonNull(l) : StrLess(l[m].Chassis, l[k].Chassis)})

\* the index of the GPU serial g of a group in their ascending order
GPUIndex(gpus, g) ==
  Cardinality({n \in 1..Len(gpus) : StrLess(gpus[n], g)})

KnownChassis(l, k) == sanitizeLabelValue(l[k].Chassis) # <<"n", "a">>

\* the labels the groups of l are to have, as pairs of key and value
DesiredPairs(l) ==
  {<<ChassisCountKey, Itoa(Cardinality(NonNull(l)))>>}
    \cup { <<ChassisKey(ChassisIndex(l, k)), sanitizeLabelValue(l[k].Chassis)>> :
             k \in {m \in NonNull(l) : KnownChassis(l, m)} }
    \cup UNION { { <<IF KnownChassis(l, k)
                     THEN ChassisGPUKey(ChassisIndex(l, k), GPUIndex(l[k].GPU, l[k].GPU[n]))
                     ELSE GPUKey(GPUIndex(l[k].GPU, l[k].GPU[n])),
                    sanitizeLabelValue(l[k].GPU[n])>> : n \in 1..Len(l[k].GPU) } :
                 k \in NonNull(l) }

\* C18: the desired label set holds exactly chassis-count, the number of
\* groups that are not nil; for every group with a known chassis, at index i
\* of the ascending chassis order, chassis-i with the sanitized chassis and
\* chassis-i-gpu-j with the sanitized j-th GPU serial; for every group with an
\* unknown chassis, gpu-j with the sanitized GPU serial and no chassis-i; and
\* nothing for an empty list of groups
C18_DesiredLabels ==
  pure.pc = "calculated" =>
    IF pure.serials = <<>>
    THEN pure.labels = EmptyLabels
    ELSE {<<k, pure.labels[k]>> : k \in DOMAIN pure.labels} = DesiredPairs(pure.serials)

\* the (chassis, gpu) pairs of a list of groups
GroupedPairs(serials) ==
  UNION { { <<serials[k].Chassis, serials[k].GPU[n]>> : n \in 1..Len(serials[k].GPU) } :
            k \in 1..Len(serials) }

\* the (chassis, gpu) pairs of a batch of records
RecordPairs(records) == { <<records[i].Chassis, records[i].GPU>> : i \in 1..Len(records) }

ValidPairs(serials) == { p \in GroupedPairs(serials) : p[1] # <<>> /\ p[2] # <<>> }

\* an Export whose arguments passed its checks
Exported == pure.pc = "exported" /\ ~Blank(pure.node) /\ pure.serials # <<>>

\* C16: every record handed to backend.Write has a non-empty cluster, node,
\* machine, source, chassis and gpu and a time that is not zero; a pair of
\* the groups that cannot make such a record is dropped without an error of
\* Export, and every pair that can is written
C16_RecordValidity ==
  /\ pure.pc = "exported" =>
       \A i \in 1..Len(pure.res.records) :
         LET r == pure.res.records[i]
         IN /\ r.Cluster # <<>> /\ r.Node # <<>> /\ r.Machine # <<>>
            /\ r.Source # <<>> /\ r.Chassis # <<>> /\ r.GPU # <<>>
            /\ r.Time # 0
  /\ Exported =>
       /\ pure.res.err = (IF pure.res.wrote /\ ~pure.ok
                          THEN "exporter backend failed" ELSE "nil")
       /\ ValidPairs(pure.serials) \subseteq RecordPairs(pure.res.records)
       /\ pure.res.wrote = (ValidPairs(pure.serials) # {})

\* C16 witness: of one chassis with a GPU without a serial and a GPU with
\* one, the one record that validates was written and Export returned nil
C16_Witness ==
  /\ Exported
  /\ pure.res.wrote /\ pure.res.err = "nil"
  /\ Len(pure.res.records) = 1
  /\ <<<<"C", "0">>, <<>>>> \in GroupedPairs(pure.serials)
  /\ <<<<"C", "0">>, <<"G", "1">>>> \in GroupedPairs(pure.serials)

\* C17 as stated: the pairs of the records handed to the sink are the pairs
\* of the groups, one record per pair, those of a group with an empty
\* chassis included
C17_AllPairs ==
  Exported =>
    /\ RecordPairs(pure.res.records) = GroupedPairs(pure.serials)
    /\ Len(pure.res.records) = Cardinality(GroupedPairs(pure.serials))

\* C17: the pairs of the records handed to the sink are the pairs of the
\* groups whose chassis and GPU serial are both not empty, one record per
\* pair; the groups are the pairs of the parsed GPUs, each once
C17_NonEmptyPairs ==
  /\ pure.pc \in {"grouped", "exported"} =>
       GroupedPairs(pure.serials) =
         { <<pure.devices[i].ChassisSerialNumber, pure.devices[i].Serial>> :
             i \in 1..Len(pure.devices) }
  /\ Exported =>
       /\ RecordPairs(pure.res.records) = ValidPairs(pure.serials)
       /\ Len(pure.res.records) = Cardinality(ValidPairs(pure.serials))

\* C17 witness: a write that carries the pairs of one chassis while a group
\* with an empty chassis was left out
C17_Witness ==
  /\ Exported /\ pure.res.wrote
  /\ \E k \in 1..Len(pure.serials) :
       pure.serials[k].Chassis = <<>> /\ <<"G", "1">> \in {pure.serials[k].GPU[n] : n \in 1..Len(pure.serials[k].GPU)}
  /\ RecordPairs(pure.res.records) = {<<<<"C", "1">>, <<"G", "2">>>>}

\* C21: the desired label map computed from a list of chassis groups and the
\* one computed from any reordering of the list, and of the GPU serials
\* inside each group, are the same map
C21_PermutationInvariant ==
  pure.pc = "both" => pure.relabels = pure.labels

\* C21 witness: two groups with known chassis were given in both orders, the
\* GPU serials of one in the other order, and chassis-1 is in the one map
\* computed
C21_Witness ==
  /\ pure.pc = "both"
  /\ Len(pure.serials) = 2
  /\ pure.reordered[1] # NilSerials /\ pure.reordered[2] # NilSerials
  /\ pure.reordered[1].Chassis = <<"C", "1">>
  /\ pure.reordered[1].GPU = << <<"G", "2">>, <<"G", "1">> >>
  /\ pure.serials[1].Chassis = <<"C", "0">>
  /\ ChassisKey(1) \in DOMAIN pure.labels
  /\ pure.relabels = pure.labels

KnownKinds == {<<"stdout">>, <<"s3">>, <<"postgres">>, <<"http">>}

\* the kind a configuration asks for: stdout when it names none
AskedKind(config) ==
  IF \A i \in 1..Len(config.Type) : config.Type[i] = " " THEN <<"stdout">> ELSE config.Type

AfterLastSlash(s) ==
  LET slashes == {i \in 1..Len(s) : s[i] = "/"}
      last == CHOOSE i \in slashes : \A j \in slashes : j <= i
  IN IF slashes = {} THEN s ELSE SubSeq(s, last + 1, Len(s))

\* the last of the "/"-separated segments of s that is not empty
LastNonEmptySegment(s) ==
  LET others == {i \in 1..Len(s) : s[i] # "/"}
      e == CHOOSE i \in others : \A j \in others : j <= i
      b == CHOOSE i \in 1..e :
             /\ \A k \in i..e : s[k] # "/"
             /\ i = 1 \/ s[i - 1] = "/"
  IN IF others = {} THEN <<>> ELSE SubSeq(s, b, e)

Lowercased(scheme) == IF scheme = "AWS" THEN <<"aws">> ELSE <<scheme>>

\* the provider, the raw string and the errors of C23
ParsedProvider ==
  pure.pc = "parsed" =>
    IF pure.scheme = "none"
    THEN pure.info.err /\ pure.info.Provider = <<>> /\ pure.info.Identifier = <<>>
    ELSE /\ ~pure.info.err
         /\ pure.info.Provider = Lowercased(pure.scheme)
         /\ pure.info.Raw = pure.in

IssuesCall(w) ==
  \/ wk'[w].execs > wk[w].execs
  \/ wk'[w].e.gets > wk[w].e.gets
  \/ wk'[w].e.updates > wk[w].e.updates
  \/ wk'[w].provs > wk[w].provs
  \/ wk'[w].writes > wk[w].writes

\* C24: when a worker issues an exec, a node read or update, a provider
\* lookup or a sink write for a pod, the pod's uid is in the dedup set; an
\* attempt that failed after its mark leaves the uid in the set; and a worker
\* that then finds the uid in the set finishes without a call, so that the
\* uid is exec'd once
C24_MarkBeforeCalls ==
  /\ [][\A w \in Workers : IssuesCall(w) => wk[w].pod.uid \in DOMAIN processed]_vars
  /\ [](\A w \in Workers :
          (wk[w].pc = "finished" /\ wk[w].err \notin {"nil", "ctx"})
             => wk[w].pod.uid \in DOMAIN Swept(processed, now))
  /\ [][\A w \in Workers :
          (wk[w].pc = "has" /\ wk'[w] # wk[w]
             /\ wk[w].pod.uid \in DOMAIN Swept(processed, now))
             => (wk'[w].pc = "finished" /\ ~IssuesCall(w) /\ processed' = Swept(processed, now))]_vars
  /\ [](\A u \in UIDs : Cardinality(Execs(u)) <= 1 /\ Cardinality(Marks(u)) <= 1)

\* C24 witness: the exec of U1 failed, its uid stayed in the dedup set, and a
\* worker that popped the key again found the uid there and finished without
\* a call
C24_Witness ==
  /\ Cardinality(Execs("U1")) = 1 /\ Writes("U1") = {}
  /\ "U1" \in DOMAIN processed
  /\ \E w \in Workers :
       /\ wk[w].pc = "finished" /\ wk[w].ready /\ wk[w].pod.uid = "U1"
       /\ wk[w].execs = 0 /\ wk[w].err = "nil"

C26_PipelineOrder ==
  /\ [](\A w \in Workers : wk[w].execs <= 1 /\ wk[w].provs <= 1 /\ wk[w].writes <= 1)
  /\ [][\A w \in Workers :
          /\ wk'[w].execs > wk[w].execs =>
               (wk[w].e.gets = 0 /\ wk[w].e.updates = 0 /\ wk[w].provs = 0 /\ wk[w].writes = 0)
          /\ (wk'[w].e.gets > wk[w].e.gets \/ wk'[w].e.updates > wk[w].e.updates) =>
               (wk[w].execs = 1 /\ wk[w].provs = 0 /\ wk[w].writes = 0)
          /\ (wk'[w].pc = "provider" /\ wk[w].pc # "provider") =>
               (wk[w].pc = "ensured" /\ wk[w].e.err = "nil" /\ wk[w].e.gets > 0)
          /\ wk'[w].provs > wk[w].provs =>
               (wk[w].pc = "provider" /\ wk[w].execs = 1 /\ wk[w].writes = 0)
          /\ wk'[w].writes > wk[w].writes =>
               (wk[w].execs = 1 /\ wk[w].provs = 1 /\ wk[w].nErr = 0
                  /\ wk[w].identifier # <<>>)
          /\ (wk[w].err # "nil" \/ wk[w].nErr > 0) =>
               (~IssuesCall(w) /\ events' = events)]_vars

\* C26 witness: the label ensure of an attempt failed after its exec, and the
\* attempt ended without a provider lookup and without a sink write
C26_Witness ==
  \E w \in Workers :
    /\ wk[w].pc = "finished" /\ wk[w].err = "timeout"
    /\ wk[w].execs = 1 /\ wk[w].provs = 0 /\ wk[w].writes = 0
    /\ Writes("U1") = {}

\* C27 as stated: once the root context is cancelled while the cache has not
\* synced, no worker is ever started and no pod is ever processed, no key is
\* popped before the cache has synced, and the controller returns the
\* cache-sync error
C27_CancelledBeforeSync ==
  /\ [](\A w \in Workers : wk[w].pc # "unstarted" => ctl.synced)
  /\ []((ctxDone /\ ~ctl.synced) =>
          [](/\ \A w \in Workers : wk[w].pc = "unstarted"
             /\ processing = {}
             /\ DOMAIN processed = {}))
  /\ ((ctxDone /\ ~ctl.synced) ~> (ctl.pc = "returned" /\ ctl.err = "sync"))

\* C27: workers exist and keys are popped only after the cache has synced and
\* the cache-sync wait has succeeded; a wait that ends while the root context
\* is cancelled and the cache has not synced ends in the error; and when the
\* wait has failed no worker is started, no key is popped, no pod is
\* processed and the controller has returned the error
C27_WorkersAfterSync ==
  /\ [](\A w \in Workers :
          wk[w].pc # "unstarted" => (ctl.synced /\ ctl.pc # "syncing" /\ ctl.err # "sync"))
  /\ [](ctl.pc = "syncing" => (processing = {} /\ DOMAIN processed = {}))
  /\ [][(ctl.pc = "syncing" /\ ctl'.pc # "syncing" /\ ctxDone /\ ~ctl.synced) =>
          (ctl'.pc = "returned" /\ ctl'.err = "sync")]_vars
  /\ [](ctl.err = "sync" =>
          /\ ctl.pc = "returned"
          /\ \A w \in Workers : wk[w].pc = "unstarted"
          /\ processing = {}
          /\ DOMAIN processed = {}
          /\ \A u \in UIDs : events[u] = <<>>)
  /\ ((ctl.pc = "syncing" /\ ctxDone /\ ~ctl.synced) ~> (ctl.pc # "syncing"))

\* C27 witness: the root context was cancelled while a ready pod's key was
\* queued and the cache had not synced, and the controller has returned the
\* error with the key still queued
C27_Witness ==
  /\ ctl.pc = "returned" /\ ctl.err = "sync" /\ ~ctl.synced
  /\ ctxDone
  /\ queue = <<Key1>>

\* C28: a step in which a pod leaves the informer cache changes neither the
\* queue nor the node labels nor any worker; a worker whose key has no pod in
\* the cache ends the attempt at the lookup with no exec, node, provider or
\* sink call and no counter touched, leaving the dedup set, the recorded
\* calls and the node labels as they were, and its next step gives the key up
C28_DeleteIgnored ==
  /\ [][\A k \in Keys :
          (cache[k] # NoPod /\ cache'[k] = NoPod) =>
            UNCHANGED <<queue, dirty, processing, nodeLabels, wk, processed, events>>]_vars
  /\ [][\A w \in Workers :
          (wk[w].pc = "lookup" /\ cache[wk[w].key] = NoPod /\ wk'[w] # wk[w]) =>
            /\ wk'[w] = [IdleWorker EXCEPT !.pc = "finished", !.key = wk[w].key]
            /\ UNCHANGED <<processed, events, nodeLabels, queue, dirty, processing>>]_vars
  /\ [][\A w \in Workers :
          (wk[w].pc = "finished" /\ wk[w].pod = NoPod /\ wk'[w] # wk[w]) =>
            /\ wk'[w] = IdleWorker
            /\ wk[w].key \notin processing'
            /\ UNCHANGED <<processed, events, nodeLabels>>]_vars

\* C28 witness: a ready pod's key was queued, the pod was deleted, and the
\* worker that popped the key has ended the attempt at the lookup
C28_Witness ==
  \E w \in Workers :
    /\ wk[w].pc = "finished" /\ wk[w].key = Key1 /\ wk[w].pod = NoPod
    /\ cache[Key1] = NoPod
    /\ DOMAIN processed = {}
    /\ events["U1"] = <<>>

\* C29 as stated: once the per-pod context of a worker is done, the label
\* ensure loop neither starts another backoff wait nor goes from a backoff
\* wait to another attempt
C29_StopsWhenDone ==
  [][\A w \in Workers :
       PctxDone(w) =>
         /\ ~(wk[w].pc = "backoff" /\ wk'[w].pc = "attempt")
         /\ ~(wk[w].pc # "backoff" /\ wk'[w].pc = "backoff")]_vars

\* the workers whose label ensure has returned without an error
Ensured == {w \in Workers : wk[w].pc = "ensured" /\ wk[w].e.err = "nil"}

\* C30, the convergence: an update of a stale read changes nothing and sends
\* the worker to its backoff and a new read, and once no ensure is running
\* the namespace labels of the node are the desired set of one of the
\* workers that ensured them
C30_OneDesiredSet ==
  /\ [][\A w \in Workers :
          (wk[w].pc = "update" /\ wk[w].e.stale /\ wk'[w] # wk[w]) =>
            (wk'[w].pc = "backoff" /\ nodeLabels' = nodeLabels)]_vars
  /\ []((Ensured # {} /\ \A w \in Workers : wk[w].pc \in {"caller", "ensured"}) =>
          \E w \in Ensured : NSLabels(nodeLabels) = wk[w].e.desired)

\* C30 as stated: the convergence, and no step of the concurrent ensures
\* changes a label outside the namespace
C30_ConcurrentEnsure ==
  /\ C30_OneDesiredSet
  /\ [][OutsideNS(nodeLabels') = OutsideNS(nodeLabels)]_vars

\* the groups of l that are not nil and have a known chassis
KnownGroups(l) == {k \in NonNull(l) : KnownChassis(l, k)}

\* the index of group k of l among the groups with a known chassis, in the
\* ascending order of their chassis serials
KnownIndex(l, k) ==
  Cardinality({m \in KnownGroups(l) : StrLess(l[m].Chassis, l[k].Chassis)})

\* C31: the groups with a known chassis have the indices 0..k-1 in the
\* ascending order of their chassis serials, every unknown or nil group coming
\* after them: chassis-i is a label exactly for i < k, and it is the sanitized
\* chassis of the i-th known group
C31_KnownFirst ==
  pure.pc = "calculated" =>
    LET l == pure.serials
    IN /\ {i \in 0..Len(l) : ChassisKey(i) \in DOMAIN pure.labels}
            = 0..(Cardinality(KnownGroups(l)) - 1)
       /\ \A k \in KnownGroups(l) :
            /\ ChassisKey(KnownIndex(l, k)) \in DOMAIN pure.labels
            /\ pure.labels[ChassisKey(KnownIndex(l, k))] = sanitizeLabelValue(l[k].Chassis)

\* the UIDs whose last Add is at most cacheTTL before time t
AddedWithin(t) == {u \in SetUIDs : pure.added[u] >= 0 /\ t - pure.added[u] <= cacheTTL}

\* the workers whose Has has looked the UID up and is about to return
HasReturning == {w \in Workers : pure.op[w].kind = "has" /\ pure.op[w].pc = "unlock"}

\* C32: a Has(uid) that is about to return has removed every entry older than
\* cacheTTL and returns true exactly when uid was added within the last
\* cacheTTL; the set then holds exactly the UIDs added within cacheTTL, so no
\* more entries than UIDs added in that time
C32_SweepThenLookup ==
  \A w \in HasReturning :
    LET o == pure.op[w]
    IN /\ o.result = (o.uid \in AddedWithin(o.now))
       /\ DOMAIN processed = AddedWithin(o.now)
       /\ \A u \in DOMAIN processed : ~(o.now - processed[u] > cacheTTL)
       /\ Cardinality(DOMAIN processed) <= Cardinality(AddedWithin(o.now))

\* C32 witness: a Has is about to return false for a UID that was added more
\* than cacheTTL ago and has swept its entry, while the entry of another UID
\* is kept
C32_Witness ==
  \E w \in HasReturning :
    /\ pure.added[pure.op[w].uid] >= 0
    /\ ~pure.op[w].result
    /\ DOMAIN processed # {}

\* C33: a Has(uid) that was called after an Add(uid) had returned, and that
\* runs at most cacheTTL after the last Add(uid), returns true; and at every
\* moment every UID added within the last cacheTTL is in the set with the
\* stamp of its last Add, whatever the other workers sweep or add
C33_Linearizable ==
  /\ \A w \in HasReturning :
       (pure.op[w].must /\ pure.op[w].uid \in AddedWithin(pure.op[w].now)) => pure.op[w].result
  /\ \A u \in AddedWithin(now) : u \in DOMAIN processed /\ processed[u] = pure.added[u]

\* C33 witness: a Has called after the Add of its UID had returned is about
\* to return true, having swept the expired entry of another UID, while
\* another worker waits for the lock to add that other UID again
C33_Witness ==
  \E w \in HasReturning : \E x \in Workers : \E u \in SetUIDs :
    /\ pure.op[w].must /\ pure.op[w].result
    /\ u # pure.op[w].uid
    /\ pure.added[u] >= 0 /\ u \notin DOMAIN processed
    /\ pure.op[x].kind = "add" /\ pure.op[x].uid = u /\ pure.op[x].pc = "lock"

\* C34: when Write has returned, a failed row insert has had the transaction
\* rolled back and never committed, with no row of the batch in the table and
\* the error returned; a failed begin, prepare or commit is returned as well;
\* and rows are in the table only after a commit and a nil result
C34_RollbackOnRowFailure ==
  pure.pc = "returned" =>
    /\ pure.failed = "insert" =>
         (pure.rollbacks = 1 /\ pure.commits = 0 /\ pure.tx = "rolledback"
            /\ pure.persisted = 0 /\ pure.ret = "insert")
    /\ pure.failed \in {"begin", "prepare", "commit"} =>
         (pure.ret = pure.failed /\ pure.persisted = 0)
    /\ pure.persisted > 0 => (pure.tx = "committed" /\ pure.ret = "nil")

\* the four outcomes of a stream, as the claim lists them
StderrOutcome(in, r) == r.err = "stderr" /\ r.out = <<>> /\ r.msg = in.stderr
StdoutOutcome(in, r) == r.err = "nil" /\ r.out = in.stdout
ExitOutcome(in, r) == r.err = "exit" /\ r.status = in.status /\ r.out = in.stdout
TransportOutcome(in, r) == r.err = "stream"

\* C35: for every stream that ran, a non-empty stderr gives the stderr error
\* and no stdout, whatever the stream error; otherwise no stream error gives
\* the captured stdout; otherwise an exit error gives the command-exit error
\* with the exit status and the captured stdout; otherwise the transport
\* error is returned; and exactly one of the four outcomes holds
C35_ExecClassification ==
  (pure.pc = "classified" /\ pure.in.created) =>
    LET in == pure.in
        r == pure.res
    IN /\ CASE in.stderr # <<>> -> StderrOutcome(in, r)
            [] in.err = "nil" -> StdoutOutcome(in, r)
            [] in.err = "exit" -> ExitOutcome(in, r)
            [] OTHER -> TransportOutcome(in, r)
       /\ Cardinality({o \in {"stderr", "nil", "exit", "stream"} : r.err = o}) = 1

\* C35 witness: the command wrote to stderr and to stdout and exited
\* non-zero, and the stderr error is returned without the stdout
C35_Witness ==
  /\ pure.pc = "classified" /\ pure.in.created
  /\ pure.in.stderr # <<>> /\ pure.in.stdout # <<>> /\ pure.in.err = "exit"
  /\ pure.res.err = "stderr" /\ pure.res.out = <<>>

\* one of the arguments of the call makes Export fail
BadArgs(a) ==
  ~a.initialized \/ Blank(a.cluster) \/ a.pod = NilPod \/ Blank(a.node)

\* no group of the list gives a record: each is nil, has no chassis serial
\* or has no GPU serial that is not empty
NoValidRecord(l) ==
  \A k \in 1..Len(l) :
    l[k] = NilSerials \/ l[k].Chassis = <<>> \/ \A n \in 1..Len(l[k].GPU) : l[k].GPU[n] = <<>>

\* the result of the one sink write
WriteResult(r, ok) ==
  r.wrote /\ r.records # <<>> /\ r.err = (IF ok THEN "nil" ELSE "exporter backend failed")

\* C36 as stated: an error and no write for a blank cluster, a nil pod, a
\* blank machine identifier or a sink that is not initialized; success and no
\* write for an empty list of groups or when no valid record remains; one
\* write and its result otherwise
C36_ExportOutcomes ==
  pure.pc = "exported" =>
    /\ BadArgs(pure.a) => (pure.res.err # "nil" /\ ~pure.res.wrote)
    /\ NoValidRecord(pure.a.serials) => (pure.res.err = "nil" /\ ~pure.res.wrote)
    /\ (~BadArgs(pure.a) /\ ~NoValidRecord(pure.a.serials)) => WriteResult(pure.res, pure.ok)

\* C36: success and no write for an empty list of groups, whatever the other
\* arguments; for a list that is not empty, an error and no write for a sink
\* that is not initialized, a blank cluster, a nil pod or a blank machine
\* identifier; with good arguments, success and no write when no valid record
\* remains, and one write and its result otherwise
C36_ExportPrecedence ==
  pure.pc = "exported" =>
    IF pure.a.serials = <<>> THEN pure.res.err = "nil" /\ ~pure.res.wrote
    ELSE IF BadArgs(pure.a) THEN pure.res.err # "nil" /\ ~pure.res.wrote
    ELSE IF NoValidRecord(pure.a.serials) THEN pure.res.err = "nil" /\ ~pure.res.wrote
    ELSE WriteResult(pure.res, pure.ok)

\* C36 witness: Export was called with an empty list of groups, a blank
\* cluster name and a nil pod, and returned nil without a write
C36_Witness ==
  /\ pure.pc = "exported"
  /\ pure.a.serials = <<>> /\ Blank(pure.a.cluster) /\ pure.a.pod = NilPod
  /\ pure.res = NoWrite("nil")

\* C37: no attempt increments the failure counter more than once
C37_OneFailure == \A w \in Workers : wk[w].nErr <= 1

\* C38: an attempt that has incremented the success counter has made its
\* exec and its provider lookup, has ended without an error, and has made one
\* successful sink write
C38_SuccessMeansWritten ==
  \A w \in Workers :
    wk[w].nOk > 0 =>
      /\ wk[w].execs = 1 /\ wk[w].provs = 1 /\ wk[w].err = "nil" /\ wk[w].nErr = 0
      /\ wk[w].writes = 1

\* the GPUs of the groups of l that have a serial: pairs of the group and the
\* place in its GPU list
SerialPairs(l) ==
  {p \in NonNull(l) \X (1..MaxDevices) :
     p[2] <= Len(l[p[1]].GPU) /\ l[p[1]].GPU[p[2]] # <<>>}

\* the keys of the GPU labels of a label map made for l
GPULabelKeys(l, labels) ==
  (DOMAIN labels) \ ({ChassisCountKey} \cup {ChassisKey(i) : i \in 0..Len(l)})

\* C39: the desired labels have as many GPU labels as the groups have GPU
\* serials that are not empty: no two GPUs of a node share a label key
C39_CollisionFree ==
  pure.pc = "calculated" =>
    Cardinality(GPULabelKeys(pure.serials, pure.labels)) = Cardinality(SerialPairs(pure.serials))

\* C40: the step a worker takes out of its jitter sleep when the root
\* context is cancelled ends the attempt: the UID is not added to the dedup
\* set, no call has been made and no counter incremented
C40_CancelledInJitter ==
  [][\A w \in Workers :
       (wk[w].pc = "jitter" /\ ctxDone /\ wk'[w] # wk[w]) =>
         /\ wk'[w].pc = "finished"
         /\ processed' = processed
         /\ wk'[w].execs = 0 /\ wk'[w].provs = 0 /\ wk'[w].writes = 0
         /\ wk'[w].nOk = 0 /\ wk'[w].nErr = 0]_vars

====
